---- MODULE Spec2Model ----
(***************************************************************************)
(* Model of the MES operation core of api-workshop:                        *)
(*   - OperationStateMachine  (mes-api/app/domain/operation_state_machine) *)
(*   - MESOperationService    (mes-api/app/services/mes_operation_service) *)
(*   - the storage functions  (mes-api/app/crud/mes_operation)             *)
(*                                                                         *)
(* The specifications share the variables:                                 *)
(*   SpecSM         applies the state machine's functions to inputs drawn  *)
(*                  by its initial states;                                 *)
(*   Spec, SpecScrap, SpecKeys                                             *)
(*                  run sequences of MESOperationService calls against     *)
(*                  the store;                                             *)
(*   SpecEnhanced   runs one call of MESOperationServiceEnhanced on a      *)
(*                  drawn table;                                           *)
(*   SpecRules      runs one call of ManufacturingRules;                   *)
(*   SpecRouter     runs sequences of requests to the v1 router;           *)
(*   SpecConcurrent interleaves the steps of two service calls.            *)
(***************************************************************************)
EXTENDS Integers, Sequences, FiniteSets, TLC

VARIABLES
    store,    \* the mes_operations table: composite key -> row
    pc,       \* "idle", "called" (a request is in), "returned"
    call,     \* the service call of the current request: op, key, data
    before,   \* the table as it was when the current call came in
    outcome,  \* how the current call ended: "returned", or the error type
    reply,    \* the value the current call returned, when it returns a dict or list
    sm,       \* one call of the state machine: its inputs and its result
    workers   \* concurrent requests: each worker's call, position and fetched row

vars == <<store, pc, call, before, outcome, reply, sm, workers>>

(***************************************************************************)
(* Bounds                                                                  *)
(***************************************************************************)
\* largest quantity a caller supplies
MaxQty == 2
\* largest number of keys present in a transition context
MaxCtxKeys == 2
\* largest value of the clock read by datetime.utcnow()
MaxNow == 2

(***************************************************************************)
(* OperationStatus and the transition table                                *)
(***************************************************************************)
OperationStatus ==
    {"PLANNED", "RELEASED", "IN_PROGRESS", "ON_HOLD", "FINISHED", "CANCELLED"}

\* a status string that OperationStatus(...) rejects with ValueError
UnknownStatus == "PAUSED"

StatusStrings == OperationStatus \cup {UnknownStatus}

StateTransition(to, conds, effs, confirm) ==
    [to_state |-> to, conditions |-> conds, effects |-> effs,
     requires_confirmation |-> confirm]

\* OperationStateMachine._define_transitions: from-state -> list of edges
_define_transitions(s) ==
    CASE s = "PLANNED" ->
           << StateTransition("RELEASED",
                  <<"has_required_materials", "machine_available">>,
                  <<"notify_operator", "reserve_capacity">>, FALSE),
              StateTransition("CANCELLED",
                  <<"authorized_cancellation">>,
                  <<"release_reservations", "update_schedule">>, TRUE) >>
      [] s = "RELEASED" ->
           << StateTransition("IN_PROGRESS",
                  <<"operator_available", "setup_complete">>,
                  <<"start_time_tracking", "update_machine_status">>, FALSE),
              StateTransition("ON_HOLD",
                  <<"hold_reason_provided">>,
                  <<"pause_schedule", "notify_planning">>, FALSE),
              StateTransition("CANCELLED",
                  <<"authorized_cancellation">>,
                  <<"release_reservations", "update_schedule">>, TRUE) >>
      [] s = "IN_PROGRESS" ->
           << StateTransition("FINISHED",
                  <<"quality_approved", "quantity_complete">>,
                  <<"calculate_actuals", "update_inventory", "release_capacity">>, FALSE),
              StateTransition("ON_HOLD",
                  <<"hold_reason_provided">>,
                  <<"pause_time_tracking", "notify_planning">>, FALSE),
              StateTransition("CANCELLED",
                  <<"authorized_cancellation", "work_stoppage_approved">>,
                  <<"handle_wip", "calculate_partial_actuals">>, TRUE) >>
      [] s = "ON_HOLD" ->
           << StateTransition("IN_PROGRESS",
                  <<"hold_reason_resolved", "resources_available">>,
                  <<"resume_time_tracking", "update_machine_status">>, FALSE),
              StateTransition("CANCELLED",
                  <<"authorized_cancellation">>,
                  <<"handle_wip", "release_reservations">>, TRUE) >>
      [] s = "FINISHED" -> << >>
      [] s = "CANCELLED" -> << >>
      [] OTHER -> << >>

(***************************************************************************)
(* Transition contexts: a dict with some of the keys the checkers read     *)
(***************************************************************************)
BoolKeys == {"materials_available", "operator_assigned", "hold_resolved",
             "resources_ready", "stoppage_approved"}
QtyKeys == {"qty_processed", "qty_desired"}
CtxKeys == BoolKeys \cup QtyKeys \cup
           {"machine_status", "user_role", "setup_status", "hold_reason",
            "quality_status"}

CtxValues(k) ==
    CASE k \in BoolKeys -> {TRUE, FALSE}
      [] k \in QtyKeys -> 0..MaxQty
      [] k = "machine_status" -> {"DOWN", "RUNNING"}
      [] k = "user_role" -> {"operator", "supervisor", "manager"}
      [] k = "setup_status" -> {"COMPLETE", "PENDING"}
      [] k = "hold_reason" -> {"", "tool breakage"}
      [] k = "quality_status" -> {"APPROVED", "REJECTED"}

EmptyCtx == [k \in {} |-> TRUE]

RECURSIVE CtxsOver(_)
CtxsOver(S) ==
    IF S = {} THEN {EmptyCtx}
    ELSE LET k == CHOOSE x \in S : TRUE
         IN { (k :> v) @@ c : v \in CtxValues(k), c \in CtxsOver(S \ {k}) }

Contexts ==
    UNION { CtxsOver(S) : S \in {T \in SUBSET CtxKeys : Cardinality(T) <= MaxCtxKeys} }

Has(ctx, k) == k \in DOMAIN ctx

(***************************************************************************)
(* OperationStateMachine._check_conditions                                 *)
(***************************************************************************)
condition_checkers_CancelByDefault(cond, ctx) ==
    CASE cond = "has_required_materials" ->
           IF Has(ctx, "materials_available") THEN ctx["materials_available"] ELSE TRUE
      [] cond = "machine_available" ->
           ~(Has(ctx, "machine_status") /\ ctx["machine_status"] = "DOWN")
      [] cond = "authorized_cancellation" ->
           ~Has(ctx, "user_role") \/ ctx["user_role"] \in {"supervisor", "manager"}
      [] cond = "operator_available" ->
           IF Has(ctx, "operator_assigned") THEN ctx["operator_assigned"] ELSE TRUE
      [] cond = "setup_complete" ->
           Has(ctx, "setup_status") /\ ctx["setup_status"] = "COMPLETE"
      [] cond = "hold_reason_provided" ->
           Has(ctx, "hold_reason") /\ ctx["hold_reason"] # ""
      [] cond = "quality_approved" ->
           Has(ctx, "quality_status") /\ ctx["quality_status"] = "APPROVED"
      [] cond = "quantity_complete" ->
           (IF Has(ctx, "qty_processed") THEN ctx["qty_processed"] ELSE 0)
             >= (IF Has(ctx, "qty_desired") THEN ctx["qty_desired"] ELSE 1)
      [] cond = "hold_reason_resolved" ->
           IF Has(ctx, "hold_resolved") THEN ctx["hold_resolved"] ELSE FALSE
      [] cond = "resources_available" ->
           IF Has(ctx, "resources_ready") THEN ctx["resources_ready"] ELSE TRUE
      [] cond = "work_stoppage_approved" ->
           IF Has(ctx, "stoppage_approved") THEN ctx["stoppage_approved"] ELSE FALSE
      [] OTHER -> TRUE

\* the eleven condition_checkers lambdas, applied to a context
condition_checkers(cond, ctx) ==
    CASE cond = "has_required_materials" ->
           IF Has(ctx, "materials_available") THEN ctx["materials_available"] ELSE TRUE
      [] cond = "machine_available" ->
           ~(Has(ctx, "machine_status") /\ ctx["machine_status"] = "DOWN")
      [] cond = "authorized_cancellation" ->
           Has(ctx, "user_role") /\ ctx["user_role"] \in {"supervisor", "manager"}
      [] cond = "operator_available" ->
           IF Has(ctx, "operator_assigned") THEN ctx["operator_assigned"] ELSE TRUE
      [] cond = "setup_complete" ->
           Has(ctx, "setup_status") /\ ctx["setup_status"] = "COMPLETE"
      [] cond = "hold_reason_provided" ->
           Has(ctx, "hold_reason") /\ ctx["hold_reason"] # ""
      [] cond = "quality_approved" ->
           Has(ctx, "quality_status") /\ ctx["quality_status"] = "APPROVED"
      [] cond = "quantity_complete" ->
           (IF Has(ctx, "qty_processed") THEN ctx["qty_processed"] ELSE 0)
             >= (IF Has(ctx, "qty_desired") THEN ctx["qty_desired"] ELSE 1)
      [] cond = "hold_reason_resolved" ->
           IF Has(ctx, "hold_resolved") THEN ctx["hold_resolved"] ELSE FALSE
      [] cond = "resources_available" ->
           IF Has(ctx, "resources_ready") THEN ctx["resources_ready"] ELSE TRUE
      [] cond = "work_stoppage_approved" ->
           IF Has(ctx, "stoppage_approved") THEN ctx["stoppage_approved"] ELSE FALSE
      \* condition_checkers.get(condition) is None: the condition is skipped
      [] OTHER -> TRUE

_check_conditions_FirstOnly(transition, ctx) ==
    Len(transition.conditions) = 0
      \/ condition_checkers(transition.conditions[1], ctx)

\* all conditions of the edge are met (the loop returns False at the first
\* checker that fails)
_check_conditions(transition, ctx) ==
    \A i \in 1..Len(transition.conditions) :
        condition_checkers(transition.conditions[i], ctx)

(***************************************************************************)
(* OperationStateMachine.can_transition / get_valid_transitions            *)
(***************************************************************************)
\* the first edge of from_state whose to_state is the target, as a set
FindTransition(from_state, to_state) ==
    LET ts == _define_transitions(from_state)
        hits == {i \in 1..Len(ts) : ts[i].to_state = to_state}
    IN IF hits = {} THEN {}
       ELSE {ts[CHOOSE i \in hits : \A j \in hits : i <= j]}

can_transition_NoSelfLoop(from_state, to_state, ctx) ==
    IF from_state \notin OperationStatus \/ to_state \notin OperationStatus
    THEN FALSE
    ELSE \E t \in FindTransition(from_state, to_state) : _check_conditions(t, ctx)

can_transition_TerminalReopen(from_state, to_state, ctx) ==
    IF from_state \notin OperationStatus \/ to_state \notin OperationStatus
    THEN FALSE
    ELSE IF from_state = to_state THEN TRUE
    ELSE IF from_state = "FINISHED" /\ to_state = "IN_PROGRESS" THEN TRUE
    ELSE \E t \in FindTransition(from_state, to_state) : _check_conditions(t, ctx)

can_transition(from_state, to_state, ctx) ==
    IF from_state \notin OperationStatus \/ to_state \notin OperationStatus
    THEN FALSE                       \* ValueError caught: return False
    ELSE IF from_state = to_state THEN TRUE      \* no transition needed
    ELSE \E t \in FindTransition(from_state, to_state) : _check_conditions(t, ctx)

get_valid_transitions_All(current_state) ==
    IF current_state \notin OperationStatus THEN << >>
    ELSE <<"RELEASED", "IN_PROGRESS", "ON_HOLD", "FINISHED", "CANCELLED">>

get_valid_transitions(current_state) ==
    IF current_state \notin OperationStatus THEN << >>
    ELSE LET ts == _define_transitions(current_state)
         IN [i \in 1..Len(ts) |-> ts[i].to_state]

(***************************************************************************)
(* OperationStateMachine.transition and its effects                        *)
(***************************************************************************)
RECURSIVE Without(_, _)
\* the elements of seq that are not in S, in order
Without(seq, S) ==
    IF seq = << >> THEN << >>
    ELSE IF Head(seq) \in S THEN Without(Tail(seq), S)
    ELSE <<Head(seq)>> \o Without(Tail(seq), S)

\* the effects with an entry in effect_handlers
effect_handlers ==
    {"notify_operator", "reserve_capacity", "release_reservations",
     "update_schedule", "start_time_tracking", "update_machine_status",
     "pause_schedule", "notify_planning", "calculate_actuals",
     "update_inventory", "release_capacity", "pause_time_tracking",
     "handle_wip", "calculate_partial_actuals", "resume_time_tracking"}

\* _execute_single_effect raises iff the effect has a handler and the
\* handler fails; an unknown effect only logs a warning
_execute_single_effect(effect, failing) ==
    effect \in effect_handlers /\ effect \in failing

_execute_effects_AbortOnFailure(transition, failing) ==
    LET effs == transition.effects
        bad == {i \in 1..Len(effs) : _execute_single_effect(effs[i], failing)}
        stop == IF bad = {} THEN Len(effs) + 1
                ELSE CHOOSE i \in bad : \A j \in bad : i <= j
    IN [attempted |-> SubSeq(effs, 1, IF stop > Len(effs) THEN Len(effs) ELSE stop),
        executed |-> SubSeq(effs, 1, stop - 1)]

\* the loop of _execute_effects: every effect is attempted, the ones whose
\* handler raises are logged and left out of the returned list
_execute_effects(transition, failing) ==
    LET effs == transition.effects
        raised == {effs[i] : i \in {j \in 1..Len(effs) :
                                      _execute_single_effect(effs[j], failing)}}
    IN [attempted |-> effs, executed |-> Without(effs, raised)]

NoRecord == [error |-> "none", attempted |-> << >>, effects_executed |-> << >>,
             requires_confirmation |-> FALSE]

\* transition(from_state, to_state, context, user_id): the ValueError raised,
\* or the record returned ("none")
transition(from_state, to_state, ctx, failing) ==
    IF ~can_transition(from_state, to_state, ctx)
    THEN [NoRecord EXCEPT !.error = "Invalid transition"]
    ELSE LET found == FindTransition(from_state, to_state)
         IN IF found = {}
            THEN [NoRecord EXCEPT !.error = "Transition not found"]
            ELSE LET t == CHOOSE x \in found : TRUE
                     r == _execute_effects(t, failing)
                 IN [error |-> "none", attempted |-> r.attempted,
                     effects_executed |-> r.executed,
                     requires_confirmation |-> t.requires_confirmation]

(***************************************************************************)
(* SpecSM: one call of the state machine on inputs drawn by Init           *)
(***************************************************************************)
EmptyStore == [k \in {} |-> TRUE]
EmptyData == [f \in {} |-> TRUE]
NoCall == [op |-> "none", key |-> <<"", 0, "">>, data |-> EmptyData]
NoReply == [f \in {} |-> TRUE]
\* no concurrent requests
NoWorkers == [w \in {} |-> TRUE]

\* no request is being served
Idle ==
    /\ pc = "idle"
    /\ call = NoCall
    /\ before = EmptyStore
    /\ outcome = "none"
    /\ reply = NoReply

SmIdle == [call |-> "idle", from_state |-> "PLANNED", to_state |-> "PLANNED",
           context |-> EmptyCtx, failing |-> {}, result |-> FALSE,
           targets |-> << >>, record |-> NoRecord]

SmInput(f, t, c) ==
    [SmIdle EXCEPT !.call = "input", !.from_state = f, !.to_state = t,
                   !.context = c]

InitSM ==
    /\ store = EmptyStore
    /\ Idle
    /\ sm \in {SmInput(f, t, c) : f \in StatusStrings, t \in StatusStrings,
                                  c \in Contexts}
    /\ workers = NoWorkers

SMCanTransition ==
    /\ sm.call = "input"
    /\ sm' = [sm EXCEPT !.call = "can_transition",
                        !.result = can_transition(sm.from_state, sm.to_state, sm.context)]
    /\ UNCHANGED <<store, pc, call, before, outcome, reply, workers>>

SMGetValidTransitions ==
    /\ sm.call = "input"
    /\ sm' = [sm EXCEPT !.call = "get_valid_transitions",
                        !.targets = get_valid_transitions(sm.from_state)]
    /\ UNCHANGED <<store, pc, call, before, outcome, reply, workers>>

\* the handlers that may fail during this call: any of the edge's effects
EdgeEffects(f, t) ==
    UNION {{e.effects[i] : i \in 1..Len(e.effects)} : e \in FindTransition(f, t)}

SMTransition ==
    /\ sm.call = "input"
    /\ \E failing \in SUBSET EdgeEffects(sm.from_state, sm.to_state) :
         sm' = [sm EXCEPT !.call = "transition",
                          !.failing = failing,
                          !.result = can_transition(sm.from_state, sm.to_state, sm.context),
                          !.record = transition(sm.from_state, sm.to_state,
                                                sm.context, failing)]
    /\ UNCHANGED <<store, pc, call, before, outcome, reply, workers>>

NextSM == SMCanTransition \/ SMGetValidTransitions \/ SMTransition

SpecSM == InitSM /\ [][NextSM]_vars

(***************************************************************************)
(* Properties of the state machine (checked under SpecSM)                  *)
(***************************************************************************)
\* the ten edges of the transition table, as (from, to) pairs
TenEdges ==
    { <<"PLANNED", "RELEASED">>, <<"PLANNED", "CANCELLED">>,
      <<"RELEASED", "IN_PROGRESS">>, <<"RELEASED", "ON_HOLD">>,
      <<"RELEASED", "CANCELLED">>,
      <<"IN_PROGRESS", "FINISHED">>, <<"IN_PROGRESS", "ON_HOLD">>,
      <<"IN_PROGRESS", "CANCELLED">>,
      <<"ON_HOLD", "IN_PROGRESS">>, <<"ON_HOLD", "CANCELLED">> }

TerminalStates == {"FINISHED", "CANCELLED"}

SmEdge == <<sm.from_state, sm.to_state>>

Range(seq) == {seq[i] : i \in 1..Len(seq)}

\* C3: can_transition(s, s, ctx) is true for each of the six statuses and
\* every context, the empty one included.
C3_SameStateAllowed ==
    (sm.call = "can_transition" /\ sm.from_state \in OperationStatus
       /\ sm.to_state = sm.from_state)
    => sm.result = TRUE

C3_Witness ==
    /\ sm.call = "can_transition"
    /\ sm.from_state = "FINISHED" /\ sm.to_state = "FINISHED"
    /\ sm.context = EmptyCtx
    /\ sm.result = TRUE

\* C4 as stated: can_transition(FINISHED, t, ctx) and
\* can_transition(CANCELLED, t, ctx) are false for every one of the six
\* statuses t.
C4_Original ==
    (sm.call = "can_transition" /\ sm.from_state \in TerminalStates
       /\ sm.to_state \in OperationStatus)
    => sm.result = FALSE

\* C4 amended: from FINISHED or CANCELLED, can_transition is false for every
\* status t other than the terminal status itself (the same-status call is
\* the permitted no-op).
C4_TerminalNoOutgoing ==
    (sm.call = "can_transition" /\ sm.from_state \in TerminalStates
       /\ sm.to_state \in OperationStatus /\ sm.to_state # sm.from_state)
    => sm.result = FALSE

C4_Witness ==
    /\ sm.call = "can_transition"
    /\ sm.from_state = "FINISHED" /\ sm.to_state = "IN_PROGRESS"
    /\ Has(sm.context, "setup_status") /\ sm.context["setup_status"] = "COMPLETE"
    /\ sm.result = FALSE

\* the named preconditions of the edge (from, to)
EdgeConditions(f, t) ==
    UNION {Range(e.conditions) : e \in FindTransition(f, t)}

\* C5: on an edge of the table, when at least one named precondition of the
\* edge is false in the context, can_transition is false and transition
\* raises the invalid-transition error and attempts no effect.
C5_UnmetPreconditionRejects ==
    (sm.call \in {"can_transition", "transition"} /\ SmEdge \in TenEdges
       /\ \E c \in EdgeConditions(sm.from_state, sm.to_state) :
              ~condition_checkers(c, sm.context))
    => /\ sm.result = FALSE
       /\ sm.call = "transition" =>
            /\ sm.record.error = "Invalid transition"
            /\ sm.record.attempted = << >>
            /\ sm.record.effects_executed = << >>

\* the second precondition fails while the first one holds
C5_Witness ==
    /\ sm.call = "transition"
    /\ sm.from_state = "IN_PROGRESS" /\ sm.to_state = "FINISHED"
    /\ Has(sm.context, "quality_status") /\ sm.context["quality_status"] = "APPROVED"
    /\ ~condition_checkers("quantity_complete", sm.context)
    /\ sm.record.error = "Invalid transition"

\* C6 as stated: with an empty context can_transition is true for each of
\* the ten edges.
C6_Original ==
    (sm.call = "can_transition" /\ sm.context = EmptyCtx /\ SmEdge \in TenEdges)
    => sm.result = TRUE

\* the targets the transition table lists for a status
TableTargets(s) ==
    CASE s = "PLANNED" -> {"RELEASED", "CANCELLED"}
      [] s = "RELEASED" -> {"IN_PROGRESS", "ON_HOLD", "CANCELLED"}
      [] s = "IN_PROGRESS" -> {"FINISHED", "ON_HOLD", "CANCELLED"}
      [] s = "ON_HOLD" -> {"IN_PROGRESS", "CANCELLED"}
      [] OTHER -> {}

\* C7: get_valid_transitions(s) lists exactly the table's targets of s
\* (nothing for FINISHED, CANCELLED and unknown strings), and a target that
\* can_transition accepts for s (other than s) is in that list.
C7_ValidTransitionsAreTableTargets ==
    /\ sm.call = "get_valid_transitions"
         => /\ Range(sm.targets) = TableTargets(sm.from_state)
            /\ Len(sm.targets) = Cardinality(TableTargets(sm.from_state))
    /\ (sm.call = "can_transition" /\ sm.result /\ sm.from_state # sm.to_state)
         => sm.to_state \in Range(get_valid_transitions(sm.from_state))

C7_Witness ==
    /\ sm.call = "get_valid_transitions"
    /\ sm.from_state = "IN_PROGRESS"
    /\ Range(sm.targets) = {"FINISHED", "ON_HOLD", "CANCELLED"}

\* C8: without a user_role of supervisor or manager no non-terminal status
\* can move to CANCELLED; from IN_PROGRESS the stoppage must be approved too.
C8_CancellationNeedsAuthorization ==
    (sm.call = "can_transition" /\ sm.to_state = "CANCELLED"
       /\ sm.from_state \in OperationStatus \ TerminalStates)
    => /\ (~Has(sm.context, "user_role")
             \/ sm.context["user_role"] \notin {"supervisor", "manager"})
            => sm.result = FALSE
       /\ (sm.from_state = "IN_PROGRESS"
             /\ ~(Has(sm.context, "stoppage_approved")
                    /\ sm.context["stoppage_approved"]))
            => sm.result = FALSE

C8_Witness ==
    /\ sm.call = "can_transition"
    /\ sm.from_state = "IN_PROGRESS" /\ sm.to_state = "CANCELLED"
    /\ Has(sm.context, "user_role") /\ sm.context["user_role"] = "manager"
    /\ ~Has(sm.context, "stoppage_approved")
    /\ sm.result = FALSE

\* the effect list of the edge (from, to), in table order
EdgeEffectList(f, t) ==
    LET found == FindTransition(f, t)
    IN IF found = {} THEN << >> ELSE (CHOOSE e \in found : TRUE).effects

\* C9: a permitted transition over an edge returns its record; every effect
\* of the edge is attempted in table order, effects_executed holds the
\* effects whose handler did not fail, in table order, and is the full list
\* when no handler fails.
C9_EffectsBestEffort ==
    (sm.call = "transition" /\ sm.result /\ SmEdge \in TenEdges)
    => /\ sm.record.error = "none"
       /\ sm.record.attempted = EdgeEffectList(sm.from_state, sm.to_state)
       /\ sm.record.effects_executed =
            Without(EdgeEffectList(sm.from_state, sm.to_state), sm.failing)
       /\ sm.failing = {} =>
            sm.record.effects_executed = EdgeEffectList(sm.from_state, sm.to_state)

\* the first handler fails, the later two effects are still executed
C9_Witness ==
    /\ sm.call = "transition"
    /\ sm.from_state = "IN_PROGRESS" /\ sm.to_state = "FINISHED"
    /\ sm.failing = {"calculate_actuals"}
    /\ sm.record.error = "none"
    /\ sm.record.effects_executed = <<"update_inventory", "release_capacity">>

(***************************************************************************)
(* The mes_operations table and the payloads of the service calls          *)
(***************************************************************************)
\* composite keys (order_no, asset_id, operation_no)
Keys == { <<"WO-1", 1, "0010">>, <<"WO-1", 1, "0020">> }

\* None in an Optional[str] / Optional[int] / Optional[datetime] column
NoneStatus == "None"
NoneQty == -1
NoneTime == 0

Quantities == {NoneQty} \cup (0..MaxQty)

\* the columns of a row that the service reads or writes
RowFields == {"status", "qty_desired", "qty_processed", "qty_scrap",
              "actual_start_at", "actual_end_at"}

\* the values callers supply for a field
FieldValues(f) ==
    CASE f = "status" -> OperationStatus
      [] f \in {"qty_desired", "qty_processed", "qty_scrap"} -> Quantities

\* largest number of fields in one update payload
MaxPayloadFields == 2

RECURSIVE PayloadsOver(_)
\* the payloads that supply exactly the fields S
PayloadsOver(S) ==
    IF S = {} THEN {EmptyData}
    ELSE LET f == CHOOSE x \in S : TRUE
         IN { (f :> v) @@ p : v \in FieldValues(f), p \in PayloadsOver(S \ {f}) }

\* MESOperationUpdate.model_dump(exclude_unset=True) of callers that supply
\* some of the fields F
Payloads(F) ==
    UNION { PayloadsOver(S) :
              S \in {T \in SUBSET F : Cardinality(T) <= MaxPayloadFields} }

\* MESOperationCreate.model_dump(): an unsupplied Optional field is None
RowDefault(f) ==
    CASE f = "status" -> NoneStatus
      [] f \in {"qty_desired", "qty_processed", "qty_scrap"} -> NoneQty
      [] f \in {"actual_start_at", "actual_end_at"} -> NoneTime

model_dump(body) ==
    [f \in RowFields |-> IF f \in DOMAIN body THEN body[f] ELSE RowDefault(f)]

\* MESOperationCreate bodies of callers that supply the fields F
CreateInputs(F) == {model_dump(p) : p \in PayloadsOver(F)}

\* final_quantity of finish_operation
FinalQuantities == Quantities

\* Python truthiness of an Optional[int]: None and 0 are falsy
Truthy(q) == q # NoneQty /\ q # 0

\* update_dict.get(field, default)
Get(update_dict, field, default) ==
    IF field \in DOMAIN update_dict THEN update_dict[field] ELSE default

Present(st, k) == k \in DOMAIN st

\* datetime.utcnow(): later than every timestamp stored so far
Max(S) == CHOOSE x \in S : \A y \in S : y <= x
utcnow(st) ==
    1 + Max({NoneTime} \cup {st[k].actual_start_at : k \in DOMAIN st}
                       \cup {st[k].actual_end_at : k \in DOMAIN st})

(***************************************************************************)
(* crud/mes_operation.py                                                   *)
(***************************************************************************)
Result(st, how) == [store |-> st, outcome |-> how]

create_operation_NoPrimaryKey(st, k, operation) ==
    IF Truthy(operation.qty_processed) /\ Truthy(operation.qty_desired)
         /\ operation.qty_processed > operation.qty_desired
    THEN Result(st, "invalid_quantity")
    ELSE Result((k :> operation) @@ st, "returned")

\* create_operation: the quantity check, then INSERT and commit
create_operation(st, k, operation) ==
    IF Truthy(operation.qty_processed) /\ Truthy(operation.qty_desired)
         /\ operation.qty_processed > operation.qty_desired
    THEN Result(st, "invalid_quantity")
    ELSE IF Present(st, k) THEN Result(st, "integrity_violation")
    ELSE Result((k :> operation) @@ st, "returned")

update_operation_DumpAll(st, k, update_data) ==
    IF ~Present(st, k) THEN Result(st, "returned_none")
    ELSE LET new_qty_processed == Get(update_data, "qty_processed", st[k].qty_processed)
             qty_desired == Get(update_data, "qty_desired", st[k].qty_desired)
         IN IF Truthy(new_qty_processed) /\ Truthy(qty_desired)
                 /\ new_qty_processed > qty_desired
            THEN Result(st, "invalid_quantity")
            ELSE Result([st EXCEPT ![k] =
                            [f \in RowFields |-> Get(update_data, f, RowDefault(f))]],
                        "returned")

\* update_operation: None when the row is missing, the quantity check, then
\* setattr of every supplied field and commit
update_operation(st, k, update_data) ==
    IF ~Present(st, k) THEN Result(st, "returned_none")
    ELSE LET new_qty_processed == Get(update_data, "qty_processed", st[k].qty_processed)
             qty_desired == Get(update_data, "qty_desired", st[k].qty_desired)
         IN IF Truthy(new_qty_processed) /\ Truthy(qty_desired)
                 /\ new_qty_processed > qty_desired
            THEN Result(st, "invalid_quantity")
            ELSE Result([st EXCEPT ![k] =
                            [f \in RowFields |-> Get(update_data, f, st[k][f])]],
                        "returned")

delete_operation_KeepsRow(st, k) ==
    IF ~Present(st, k) THEN Result(st, "returned_false")
    ELSE Result(st, "returned")

\* delete_operation
delete_operation(st, k) ==
    IF ~Present(st, k) THEN Result(st, "returned_false")
    ELSE Result([x \in DOMAIN st \ {k} |-> st[x]], "returned")

(***************************************************************************)
(* MESOperationService                                                     *)
(***************************************************************************)
VALID_STATE_TRANSITIONS_Reopen(s) ==
    CASE s = "PLANNED" -> {"RELEASED", "CANCELLED"}
      [] s = "RELEASED" -> {"IN_PROGRESS", "CANCELLED", "ON_HOLD"}
      [] s = "IN_PROGRESS" -> {"FINISHED", "ON_HOLD", "CANCELLED"}
      [] s = "ON_HOLD" -> {"IN_PROGRESS", "CANCELLED"}
      [] s = "FINISHED" -> {"IN_PROGRESS"}
      [] s = "CANCELLED" -> {}
      [] OTHER -> {}

VALID_STATE_TRANSITIONS(s) ==
    CASE s = "PLANNED" -> {"RELEASED", "CANCELLED"}
      [] s = "RELEASED" -> {"IN_PROGRESS", "CANCELLED", "ON_HOLD"}
      [] s = "IN_PROGRESS" -> {"FINISHED", "ON_HOLD", "CANCELLED"}
      [] s = "ON_HOLD" -> {"IN_PROGRESS", "CANCELLED"}
      [] s = "FINISHED" -> {}
      [] s = "CANCELLED" -> {}
      \* VALID_STATE_TRANSITIONS.get(current_status, [])
      [] OTHER -> {}

_validate_state_transition_NoSameStatus(current_status, new_status) ==
    new_status \notin VALID_STATE_TRANSITIONS(current_status)

\* _validate_state_transition raises InvalidOperationStateException
_validate_state_transition(current_status, new_status) ==
    current_status # new_status
      /\ new_status \notin VALID_STATE_TRANSITIONS(current_status)

\* _validate_operation_data raises InvalidQuantityException (the callers of
\* this model supply no planned times, so its time check is skipped)
_validate_operation_data(operation_data) ==
    Truthy(operation_data.qty_processed) /\ Truthy(operation_data.qty_desired)
      /\ operation_data.qty_processed > operation_data.qty_desired

\* _validate_quantities_update raises InvalidQuantityException
_validate_quantities_update(existing, update_dict) ==
    LET new_qty_processed == Get(update_dict, "qty_processed", existing.qty_processed)
        new_qty_desired == Get(update_dict, "qty_desired", existing.qty_desired)
        new_qty_scrap == Get(update_dict, "qty_scrap", existing.qty_scrap)
    IN \/ (Truthy(new_qty_processed) /\ Truthy(new_qty_desired)
             /\ new_qty_processed > new_qty_desired)
       \/ (Truthy(new_qty_scrap) /\ Truthy(new_qty_processed)
             /\ new_qty_scrap > new_qty_processed)

create_NoDuplicateCheck(st, k, operation_data) ==
    IF _validate_operation_data(operation_data)
    THEN Result(st, "invalid_quantity")
    ELSE create_operation(st, k, operation_data)

\* MESOperationService.create
create(st, k, operation_data) ==
    IF Present(st, k) THEN Result(st, "duplicate_operation")
    ELSE IF _validate_operation_data(operation_data)
         THEN Result(st, "invalid_quantity")
         ELSE create_operation(st, k, operation_data)

update_WriteBeforeValidate(st, k, update_dict) ==
    IF ~Present(st, k) THEN Result(st, "not_found")
    ELSE IF "status" \in DOMAIN update_dict
              /\ _validate_state_transition(st[k].status, update_dict["status"])
         THEN Result(st, "invalid_state_transition")
         ELSE IF _validate_quantities_update(st[k], update_dict)
              THEN Result([st EXCEPT ![k] =
                              [f \in RowFields |-> Get(update_dict, f, st[k][f])]],
                          "invalid_quantity")
              ELSE update_operation(st, k, update_dict)

\* MESOperationService.update
update(st, k, update_dict) ==
    IF ~Present(st, k) THEN Result(st, "not_found")
    ELSE IF "status" \in DOMAIN update_dict
              /\ _validate_state_transition(st[k].status, update_dict["status"])
         THEN Result(st, "invalid_state_transition")
         ELSE IF _validate_quantities_update(st[k], update_dict)
              THEN Result(st, "invalid_quantity")
              ELSE update_operation(st, k, update_dict)

delete_AnyStatus(st, k) ==
    IF ~Present(st, k) THEN Result(st, "returned_false")
    ELSE delete_operation(st, k)

\* MESOperationService.delete
delete(st, k) ==
    IF ~Present(st, k) THEN Result(st, "returned_false")
    ELSE IF st[k].status = "FINISHED" THEN Result(st, "invalid_state_transition")
    ELSE delete_operation(st, k)

start_operation_OnlyReleased(st, k) ==
    IF ~Present(st, k) THEN Result(st, "not_found")
    ELSE IF st[k].status # "RELEASED"
         THEN Result(st, "invalid_state_transition")
         ELSE update(st, k, ("status" :> "IN_PROGRESS")
                              @@ ("actual_start_at" :> utcnow(st)))

\* MESOperationService.start_operation
start_operation(st, k) ==
    IF ~Present(st, k) THEN Result(st, "not_found")
    ELSE IF st[k].status \notin {"RELEASED", "ON_HOLD"}
         THEN Result(st, "invalid_state_transition")
         ELSE update(st, k, ("status" :> "IN_PROGRESS")
                              @@ ("actual_start_at" :> utcnow(st)))

finish_operation_IgnoreQuantity(st, k, final_quantity) ==
    IF ~Present(st, k) THEN Result(st, "not_found")
    ELSE IF st[k].status # "IN_PROGRESS"
         THEN Result(st, "invalid_state_transition")
         ELSE update(st, k, ("status" :> "FINISHED")
                              @@ ("actual_end_at" :> utcnow(st)))

\* MESOperationService.finish_operation
finish_operation(st, k, final_quantity) ==
    IF ~Present(st, k) THEN Result(st, "not_found")
    ELSE IF st[k].status # "IN_PROGRESS"
         THEN Result(st, "invalid_state_transition")
         ELSE LET update_dict == ("status" :> "FINISHED")
                                   @@ ("actual_end_at" :> utcnow(st))
              IN update(st, k, IF final_quantity # NoneQty
                               THEN ("qty_processed" :> final_quantity) @@ update_dict
                               ELSE update_dict)

(***************************************************************************)
(* Spec: requests served one after the other                               *)
(***************************************************************************)
Request(op, k, data) == [op |-> op, key |-> k, data |-> data]

\* the requests of callers that address the keys K and supply the fields F
CallsOver(K, F) ==
    {Request("create", k, d) : k \in K, d \in CreateInputs(F)}
      \cup {Request("update", k, p) : k \in K, p \in Payloads(F)}
      \cup {Request("delete", k, EmptyData) : k \in K}
      \cup {Request("start_operation", k, EmptyData) : k \in K}
      \cup {Request("finish_operation", k, ("final_quantity" :> q)) :
              k \in K, q \in FinalQuantities}

\* Spec: one operation key; status, qty_desired and qty_processed supplied
Calls == CallsOver({<<"WO-1", 1, "0010">>},
                   {"status", "qty_desired", "qty_processed"})

\* a request comes in (start and finish read the clock, which is bounded)
Receive(c) ==
    /\ pc = "idle"
    /\ c.op \in {"start_operation", "finish_operation"} => utcnow(store) <= MaxNow
    /\ pc' = "called"
    /\ call' = c
    /\ before' = store
    /\ UNCHANGED <<store, outcome, reply, sm, workers>>

\* the handler has run to its end: the table and the outcome it leaves
Return(r) ==
    /\ store' = r.store
    /\ outcome' = r.outcome
    /\ reply' = IF "reply" \in DOMAIN r THEN r.reply ELSE NoReply
    /\ pc' = "returned"
    \* the call the handler made on its state machine, if it made one
    /\ sm' = IF "sm" \in DOMAIN r THEN r.sm ELSE sm
    /\ UNCHANGED <<call, before, workers>>

Create ==
    /\ pc = "called" /\ call.op = "create"
    /\ Return(create(store, call.key, call.data))

Update ==
    /\ pc = "called" /\ call.op = "update"
    /\ Return(update(store, call.key, call.data))

Delete ==
    /\ pc = "called" /\ call.op = "delete"
    /\ Return(delete(store, call.key))

StartOperation ==
    /\ pc = "called" /\ call.op = "start_operation"
    /\ Return(start_operation(store, call.key))

FinishOperation ==
    /\ pc = "called" /\ call.op = "finish_operation"
    /\ Return(finish_operation(store, call.key, call.data["final_quantity"]))

\* the response has been delivered
Respond ==
    /\ pc = "returned"
    /\ pc' = "idle"
    /\ call' = NoCall
    /\ before' = EmptyStore
    /\ outcome' = "none"
    /\ reply' = NoReply
    /\ UNCHANGED <<store, sm, workers>>

Init ==
    /\ store = EmptyStore
    /\ Idle
    /\ sm = SmIdle
    /\ workers = NoWorkers

Next ==
    \/ \E c \in Calls : Receive(c)
    \/ Create
    \/ Update
    \/ Delete
    \/ StartOperation
    \/ FinishOperation
    \/ Respond

Spec == Init /\ [][Next]_vars

(***************************************************************************)
(* Properties of MESOperationService (checked under Spec)                  *)
(***************************************************************************)
Returned(op) == pc = "returned" /\ call.op = op

\* the row the call addressed, as it was when the call came in
Existing == before[call.key]

\* the merged view of an update: stored values overridden by supplied ones
Merged(f) == IF f \in DOMAIN call.data THEN call.data[f] ELSE Existing[f]

\* C1: update of an existing operation with stored status s and supplied
\* status t raises the invalid-state-transition error exactly when t differs
\* from s and (s, t) is not one of the ten edges.
C1_UpdateStatusCheck ==
    (Returned("update") /\ call.key \in DOMAIN before
       /\ "status" \in DOMAIN call.data)
    => (outcome = "invalid_state_transition"
          <=> /\ call.data["status"] # Existing.status
              /\ <<Existing.status, call.data["status"]>> \notin TenEdges)

C1_Witness ==
    /\ Returned("update")
    /\ call.key \in DOMAIN before
    /\ Existing.status = "IN_PROGRESS"
    /\ "status" \in DOMAIN call.data /\ call.data["status"] = "PLANNED"
    /\ outcome = "invalid_state_transition"

\* C2: once the stored status of an operation is FINISHED or CANCELLED, no
\* step changes it while the operation stays in the store.
C2_TerminalStatusIsFinal ==
    [][\A k \in Keys :
          (k \in DOMAIN store /\ store[k].status \in TerminalStates
             /\ k \in DOMAIN store')
          => store'[k].status = store[k].status]_vars

\* an update tried to move a FINISHED operation and was refused
C2_Witness ==
    /\ Returned("update")
    /\ call.key \in DOMAIN before /\ call.key \in DOMAIN store
    /\ Existing.status = "FINISHED"
    /\ "status" \in DOMAIN call.data /\ call.data["status"] = "IN_PROGRESS"
    /\ store[call.key].status = "FINISHED"

\* C10: a create of a new key, or an update of an existing operation that
\* passes the status check, fails with the invalid-quantity error whenever
\* qty_processed and qty_desired are both present (zero included) in the
\* proposed operation and qty_processed > qty_desired.
C10_ProcessedOverDesiredRejected ==
    /\ (Returned("create") /\ call.key \notin DOMAIN before
          /\ call.data.qty_processed # NoneQty /\ call.data.qty_desired # NoneQty
          /\ call.data.qty_processed > call.data.qty_desired)
       => outcome = "invalid_quantity"
    /\ (Returned("update") /\ call.key \in DOMAIN before
          /\ outcome # "invalid_state_transition"
          /\ Merged("qty_processed") # NoneQty /\ Merged("qty_desired") # NoneQty
          /\ Merged("qty_processed") > Merged("qty_desired"))
       => outcome = "invalid_quantity"

(***************************************************************************)
(* SpecScrap: one operation key; status, qty_processed and qty_scrap       *)
(* supplied                                                                *)
(***************************************************************************)
CallsScrap == CallsOver({<<"WO-1", 1, "0010">>},
                        {"status", "qty_processed", "qty_scrap"})

NextScrap ==
    \/ \E c \in CallsScrap : Receive(c)
    \/ Create
    \/ Update
    \/ Delete
    \/ StartOperation
    \/ FinishOperation
    \/ Respond

SpecScrap == Init /\ [][NextScrap]_vars

(***************************************************************************)
(* SpecKeys: two operation keys; the callers of the first supply           *)
(* qty_desired and qty_processed, the callers of the second the status     *)
(***************************************************************************)
CallsKeys ==
    CallsOver({<<"WO-1", 1, "0010">>}, {"qty_desired", "qty_processed"})
      \cup CallsOver({<<"WO-1", 1, "0020">>}, {"status"})

NextKeys ==
    \/ \E c \in CallsKeys : Receive(c)
    \/ Create
    \/ Update
    \/ Delete
    \/ StartOperation
    \/ FinishOperation
    \/ Respond

SpecKeys == Init /\ [][NextKeys]_vars

(***************************************************************************)
(* Properties of create, update, start, finish and delete                  *)
(***************************************************************************)
Key1 == <<"WO-1", 1, "0010">>
Key2 == <<"WO-1", 1, "0020">>

\* every operation other than the one the call addressed is as it was
OthersUnchanged ==
    \A k \in DOMAIN before \ {call.key} :
        k \in DOMAIN store /\ store[k] = before[k]

\* C11 (checked under SpecScrap): a create of a new key, or an update of an
\* existing operation that passes the status check, fails with the
\* invalid-quantity error whenever qty_scrap and qty_processed are both
\* present (zero included) in the proposed operation and
\* qty_scrap > qty_processed.
C11_ScrapOverProcessedRejected ==
    /\ (Returned("create") /\ call.key \notin DOMAIN before
          /\ call.data.qty_scrap # NoneQty /\ call.data.qty_processed # NoneQty
          /\ call.data.qty_scrap > call.data.qty_processed)
       => outcome = "invalid_quantity"
    /\ (Returned("update") /\ call.key \in DOMAIN before
          /\ outcome # "invalid_state_transition"
          /\ Merged("qty_scrap") # NoneQty /\ Merged("qty_processed") # NoneQty
          /\ Merged("qty_scrap") > Merged("qty_processed"))
       => outcome = "invalid_quantity"

\* C12 (checked under SpecKeys): an update that fails (not found, invalid
\* state transition, invalid quantity) leaves every field of every stored
\* operation as it was before the call.
C12_FailedUpdateWritesNothing ==
    (Returned("update") /\ outcome # "returned")
    => /\ outcome \in {"not_found", "invalid_state_transition", "invalid_quantity"}
       /\ store = before

\* the payload lowers qty_desired (acceptable alone) and raises qty_processed
\* above it; the other operation is stored too
C12_Witness ==
    /\ Returned("update") /\ outcome = "invalid_quantity"
    /\ call.key = Key1 /\ Key1 \in DOMAIN before /\ Key2 \in DOMAIN before
    /\ Existing.qty_desired = 2 /\ Existing.qty_processed = 1
    /\ call.data = ("qty_desired" :> 1) @@ ("qty_processed" :> 2)
    /\ store = before

\* C13 (checked under SpecKeys): a successful update sets exactly the
\* supplied fields to the supplied values and leaves the unsupplied fields of
\* the operation, the set of stored keys and every other operation unchanged.
C13_SuccessfulUpdateFrame ==
    (Returned("update") /\ outcome = "returned")
    => /\ call.key \in DOMAIN before
       /\ DOMAIN store = DOMAIN before
       /\ \A f \in RowFields : store[call.key][f] = Merged(f)
       /\ OthersUnchanged

C13_Witness ==
    /\ Returned("update") /\ outcome = "returned"
    /\ call.key = Key1 /\ Key1 \in DOMAIN before /\ Key2 \in DOMAIN before
    /\ DOMAIN call.data = {"qty_processed"}
    /\ Existing.qty_desired = 2 /\ Existing.qty_processed = 0
    /\ store[Key1].qty_processed = 1 /\ store[Key1].qty_desired = 2

\* C14 (checked under SpecKeys): create with a composite key that is already
\* stored fails with the duplicate-operation error and leaves the table as
\* it was; a create stores a row only under a key that was free, so the
\* table never holds two operations with one key.
C14_DuplicateCreateRejected ==
    /\ (Returned("create") /\ call.key \in DOMAIN before)
       => (outcome = "duplicate_operation" /\ store = before)
    /\ (Returned("create") /\ outcome = "returned")
       => (call.key \notin DOMAIN before
             /\ DOMAIN store = DOMAIN before \cup {call.key}
             /\ OthersUnchanged)

C14_Witness ==
    /\ Returned("create") /\ outcome = "duplicate_operation"
    /\ call.key = Key2 /\ Key1 \in DOMAIN before /\ Key2 \in DOMAIN before
    /\ call.data.status # Existing.status
    /\ store = before

\* C15 (checked under Spec): a create whose status is not PLANNED or
\* RELEASED is rejected with the invalid-state error and stores nothing.
C15_CreateInitialStatus ==
    (Returned("create") /\ call.key \notin DOMAIN before
       /\ call.data.status \notin {"PLANNED", "RELEASED"})
    => (outcome = "invalid_state_transition" /\ store = before)

\* the outcome of start_operation on a stored operation whose status is not
\* RELEASED or ON_HOLD
StartRefused ==
    (Returned("start_operation") /\ call.key \in DOMAIN before
       /\ Existing.status \notin {"RELEASED", "ON_HOLD"})
    => (outcome = "invalid_state_transition" /\ store = before)

StartDone ==
    /\ outcome = "returned"
    /\ store[call.key].status = "IN_PROGRESS"
    /\ store[call.key].actual_start_at # NoneTime

StoredQuantityConflict(row) ==
    \/ (Truthy(row.qty_processed) /\ Truthy(row.qty_desired)
          /\ row.qty_processed > row.qty_desired)
    \/ (Truthy(row.qty_scrap) /\ Truthy(row.qty_processed)
          /\ row.qty_scrap > row.qty_processed)

QuantitiesValid(qty_desired, qty_processed, qty_scrap) ==
    /\ ~(qty_processed # NoneQty /\ qty_desired # NoneQty
           /\ qty_processed > qty_desired)
    /\ ~(qty_scrap # NoneQty /\ qty_processed # NoneQty
           /\ qty_scrap > qty_processed)

\* qty_processed after finish_operation(key, q)
FinishedQuantity ==
    IF call.data["final_quantity"] # NoneQty
    THEN call.data["final_quantity"] ELSE Existing.qty_processed

\* C17 (checked under Spec): finish_operation(key, q) on a stored operation
\* fails with the invalid-state-transition error and changes nothing when
\* the status is not IN_PROGRESS; with status IN_PROGRESS and valid resulting
\* quantities the status becomes FINISHED, actual_end_at is set, and
\* qty_processed is q if q was given and unchanged otherwise.
C17_FinishOperation ==
    (Returned("finish_operation") /\ call.key \in DOMAIN before)
    => /\ Existing.status # "IN_PROGRESS"
            => (outcome = "invalid_state_transition" /\ store = before)
       /\ (Existing.status = "IN_PROGRESS"
             /\ QuantitiesValid(Existing.qty_desired, FinishedQuantity,
                                Existing.qty_scrap))
            => /\ outcome = "returned"
               /\ store[call.key].status = "FINISHED"
               /\ store[call.key].actual_end_at # NoneTime
               /\ store[call.key].qty_processed = FinishedQuantity

C17_Witness ==
    /\ Returned("finish_operation") /\ call.key \in DOMAIN before
    /\ Existing.status = "IN_PROGRESS"
    /\ Existing.qty_desired = MaxQty /\ Existing.qty_processed = 0
    /\ call.data["final_quantity"] = MaxQty
    /\ outcome = "returned"
    /\ store[call.key].status = "FINISHED"
    /\ store[call.key].qty_processed = MaxQty
    /\ store[call.key].actual_end_at = utcnow(before)

\* the operation of the lifecycle scenario: the full quantity is MaxQty
LifecycleRow(status, qty_processed, started, ended) ==
    /\ call.key \in DOMAIN before
    /\ Existing.status = status
    /\ Existing.qty_desired = MaxQty /\ Existing.qty_processed = qty_processed
    /\ Existing.qty_scrap = NoneQty
    /\ (Existing.actual_start_at # NoneTime) = started
    /\ (Existing.actual_end_at # NoneTime) = ended

\* C18 (checked under Spec): each step of the lifecycle does what the
\* scenario says from the operation the previous step leaves: create with
\* the full qty_desired, qty_processed 0 and status PLANNED stores it; update
\* with status RELEASED succeeds; start makes it IN_PROGRESS with
\* actual_start_at set; finish with the full quantity makes it FINISHED with
\* actual_end_at set and qty_processed the full quantity; the delete that
\* follows fails with the invalid-state error and the operation stays stored.
C18_Lifecycle ==
    /\ (Returned("create") /\ call.key \notin DOMAIN before
          /\ call.data = model_dump(("status" :> "PLANNED")
                @@ ("qty_desired" :> MaxQty) @@ ("qty_processed" :> 0)))
       => (outcome = "returned" /\ store[call.key] = call.data)
    /\ (Returned("update") /\ LifecycleRow("PLANNED", 0, FALSE, FALSE)
          /\ call.data = ("status" :> "RELEASED"))
       => (outcome = "returned"
             /\ store[call.key] = [Existing EXCEPT !.status = "RELEASED"])
    /\ (Returned("start_operation") /\ LifecycleRow("RELEASED", 0, FALSE, FALSE))
       => (outcome = "returned"
             /\ store[call.key] = [Existing EXCEPT !.status = "IN_PROGRESS",
                                      !.actual_start_at = utcnow(before)])
    /\ (Returned("finish_operation") /\ LifecycleRow("IN_PROGRESS", 0, TRUE, FALSE)
          /\ call.data["final_quantity"] = MaxQty)
       => (outcome = "returned"
             /\ store[call.key] = [Existing EXCEPT !.status = "FINISHED",
                                      !.qty_processed = MaxQty,
                                      !.actual_end_at = utcnow(before)])
    /\ (Returned("delete") /\ LifecycleRow("FINISHED", MaxQty, TRUE, TRUE))
       => (outcome = "invalid_state_transition" /\ store = before)

\* the delete at the end of the scenario: the operation was started at the
\* first reading of the clock and finished at the second
C18_Witness ==
    /\ Returned("delete") /\ LifecycleRow("FINISHED", MaxQty, TRUE, TRUE)
    /\ Existing.actual_start_at = 1 /\ Existing.actual_end_at = 2
    /\ outcome = "invalid_state_transition"
    /\ store = before

\* C19 (checked under SpecKeys): delete of a stored operation with status
\* FINISHED fails with the invalid-state error and the operation stays
\* stored; delete of a stored operation with any other status succeeds, the
\* key is absent afterwards and every other operation is unchanged.
C19_Delete ==
    (Returned("delete") /\ call.key \in DOMAIN before)
    => IF Existing.status = "FINISHED"
       THEN outcome = "invalid_state_transition" /\ store = before
       ELSE /\ outcome = "returned"
            /\ ~Present(store, call.key)
            /\ DOMAIN store = DOMAIN before \ {call.key}
            /\ OthersUnchanged

C19_Witness ==
    /\ Returned("delete") /\ outcome = "returned"
    /\ call.key = Key2 /\ Key1 \in DOMAIN before /\ Key2 \in DOMAIN before
    /\ Existing.status = "IN_PROGRESS"
    /\ ~Present(store, Key2)
    /\ store[Key1] = before[Key1]

\* C20 (checked under Spec): delete fails with the not-found error when no
\* operation with the key is stored.
C20_DeleteAbsentNotFound ==
    (Returned("delete") /\ call.key \notin DOMAIN before)
    => outcome = "not_found"

\* C21 (checked under Spec): after any sequence of service calls every
\* stored operation with status IN_PROGRESS has actual_start_at set, and
\* every stored operation with status FINISHED has actual_start_at and
\* actual_end_at set and qty_processed > 0.
C21_StatusConstraintsOnStore ==
    \A k \in DOMAIN store :
        /\ store[k].status = "IN_PROGRESS" => store[k].actual_start_at # NoneTime
        /\ store[k].status = "FINISHED" =>
             /\ store[k].actual_start_at # NoneTime
             /\ store[k].actual_end_at # NoneTime
             /\ store[k].qty_processed # NoneQty /\ store[k].qty_processed > 0

(***************************************************************************)
(* MESOperationServiceEnhanced                                             *)
(***************************************************************************)
\* largest number of stored operations one batch runs over
MaxBatchOps == 12

\* failed_updates[:10]
FailuresListed == 10

\* the i-th operation of the table, in primary-key order
OperationKey(i) == <<"WO-1", i, "0010">>

\* OperationFilters: only status is supplied (<< >> is None); the other
\* filters stay None
Filters(status) == [status |-> status]

_apply_filters(st, filters) ==
    IF filters.status = << >> THEN DOMAIN st
    ELSE {k \in DOMAIN st : st[k].status \in Range(filters.status)}

find_operations_by_filters_All(st, filters) ==
    SelectSeq([i \in 1..MaxBatchOps |-> OperationKey(i)],
              LAMBDA k : k \in DOMAIN st)

\* find_operations_by_filters: query.all(), rows in primary-key order
find_operations_by_filters(st, filters) ==
    SelectSeq([i \in 1..MaxBatchOps |-> OperationKey(i)],
              LAMBDA k : k \in _apply_filters(st, filters))

\* MESOperationServiceEnhanced._validate_state_transition raises
\* InvalidOperationStateException: can_transition is asked without a context
Enhanced_validate_state_transition(current_status, new_status) ==
    ~can_transition(current_status, new_status, EmptyCtx)

\* the dict batch_update returns
BatchSummary(updated_count, failed_updates) ==
    [count |-> updated_count,
     failed_count |-> Len(failed_updates),
     summary |-> "Updated " \o ToString(updated_count) \o " operations"
                   \o (IF failed_updates # << >>
                       THEN ", " \o ToString(Len(failed_updates)) \o " failed"
                       ELSE ""),
     failed_operations |->
         SubSeq(failed_updates, 1,
                IF Len(failed_updates) < FailuresListed
                THEN Len(failed_updates) ELSE FailuresListed)]

RECURSIVE batch_update_loop(_, _, _, _, _)
batch_update_loop_CountsFailures(st, operations, update_dict, updated_count, failed_updates) ==
    IF operations = << >>
    THEN [store |-> st, outcome |-> "returned",
          reply |-> BatchSummary(updated_count, failed_updates)]
    ELSE LET operation == Head(operations)
         IN IF "status" \in DOMAIN update_dict
                 /\ Enhanced_validate_state_transition(st[operation].status,
                                                       update_dict["status"])
            THEN batch_update_loop(st, Tail(operations), update_dict,
                     updated_count + 1,
                     Append(failed_updates,
                            [operation_key |-> operation,
                             error |-> "invalid_state_transition"]))
            ELSE batch_update_loop(
                     [st EXCEPT ![operation] =
                         [f \in RowFields |-> Get(update_dict, f, st[operation][f])]],
                     Tail(operations), update_dict, updated_count + 1,
                     failed_updates)

\* the loop of batch_update over matching_operations, inside one transaction:
\* per operation the status check, then setattr of every supplied field; an
\* exception is caught and recorded
batch_update_loop(st, operations, update_dict, updated_count, failed_updates) ==
    IF operations = << >>
    THEN [store |-> st, outcome |-> "returned",
          reply |-> BatchSummary(updated_count, failed_updates)]
    ELSE LET operation == Head(operations)
         IN IF "status" \in DOMAIN update_dict
                 /\ Enhanced_validate_state_transition(st[operation].status,
                                                       update_dict["status"])
            THEN batch_update_loop(st, Tail(operations), update_dict,
                     updated_count,
                     Append(failed_updates,
                            [operation_key |-> operation,
                             error |-> "invalid_state_transition"]))
            ELSE batch_update_loop(
                     [st EXCEPT ![operation] =
                         [f \in RowFields |-> Get(update_dict, f, st[operation][f])]],
                     Tail(operations), update_dict, updated_count + 1,
                     failed_updates)

\* MESOperationServiceEnhanced.batch_update
batch_update(st, filters, update_dict) ==
    LET matching_operations == find_operations_by_filters(st, filters)
    IN IF matching_operations = << >>
       THEN [store |-> st, outcome |-> "returned",
             reply |-> [count |-> 0,
                        summary |-> "No operations matched the filter criteria"]]
       ELSE batch_update_loop(st, matching_operations, update_dict, 0, << >>)

\* BaseService.update: the abstract method body is pass
BaseService_update(st, entity_id, update_data) == Result(st, "returned_none")

\* MESOperationServiceEnhanced.update(order_no, asset_id, operation_no,
\* update_data), called with the positional arguments args: any other number
\* of arguments is a TypeError
Enhanced_update(st, args) ==
    IF Len(args) # 4 THEN Result(st, "type_error")
    ELSE BaseService_update(st, <<args[1], args[2], args[3]>>, args[4])

\* BaseService.create and BaseService.delete: the abstract method bodies are
\* pass
BaseService_create(st, entity_data) == Result(st, "returned_none")

BaseService_delete(st, entity_id) == Result(st, "returned_none")

\* MESOperationServiceEnhanced.create: the initial status check, then
\* super().create
Enhanced_create(st, k, operation_data) ==
    IF operation_data.status \notin {"PLANNED", "RELEASED"}
    THEN Result(st, "invalid_state_transition")
    ELSE BaseService_create(st, operation_data)

\* MESOperationServiceEnhanced.delete: super().delete
Enhanced_delete(st, k) == BaseService_delete(st, k)

\* x or default
Or(x, default) == IF Truthy(x) THEN x ELSE default

TransitionContext_CallerWins(operation, context) ==
    context
      @@ ("qty_processed" :> Or(operation.qty_processed, 0))
      @@ ("qty_desired" :> Or(operation.qty_desired, 1))
      @@ ("current_status" :> operation.status)

\* transition_context: the caller's context updated with the operation data
TransitionContext(operation, context) ==
    ("qty_processed" :> Or(operation.qty_processed, 0))
      @@ ("qty_desired" :> Or(operation.qty_desired, 1))
      @@ ("current_status" :> operation.status)
      @@ context

\* MESOperationServiceEnhanced.transition_state
transition_state(st, k, new_status, context) ==
    IF ~Present(st, k) THEN Result(st, "not_found")
    ELSE LET operation == st[k]
             transition_context == TransitionContext(operation, context)
             transition_result ==
                 transition(operation.status, new_status, transition_context, {})
             status_update == ("status" :> new_status)
             update_data ==
                 IF new_status = "IN_PROGRESS" /\ operation.actual_start_at = NoneTime
                 THEN ("actual_start_at" :> utcnow(st)) @@ status_update
                 ELSE IF new_status = "FINISHED" /\ operation.actual_end_at = NoneTime
                 THEN ("actual_end_at" :> utcnow(st)) @@ status_update
                 ELSE status_update
             \* self.state_machine.transition(...) has run, its effects included
             machine ==
                 [call |-> "transition", from_state |-> operation.status,
                  to_state |-> new_status, context |-> transition_context,
                  failing |-> {},
                  result |-> can_transition(operation.status, new_status,
                                            transition_context),
                  targets |-> << >>, record |-> transition_result]
         IN IF transition_result.error # "none"
            THEN [store |-> st, outcome |-> "value_error", sm |-> machine]
            ELSE LET updated == Enhanced_update(st, <<k, update_data>>)
                 IN IF updated.outcome = "type_error"
                    THEN [store |-> updated.store, outcome |-> "type_error",
                          sm |-> machine]
                    ELSE [store |-> updated.store, outcome |-> "returned",
                          sm |-> machine,
                          reply |-> [operation |-> "None",
                                     transition_result |-> transition_result]]

(***************************************************************************)
(* SpecEnhanced: one call of the enhanced service on a table drawn by Init *)
(***************************************************************************)
\* the rows of the drawn tables: a status and a qty_desired
StoredStatuses == {"PLANNED", "RELEASED", "IN_PROGRESS", "FINISHED"}

StoredRow(status, qty_desired) ==
    model_dump(("status" :> status) @@ ("qty_desired" :> qty_desired))

\* tables of at most two operations
PairStores ==
    UNION { [K -> {StoredRow(s, q) : s \in StoredStatuses, q \in Quantities}] :
              K \in SUBSET {OperationKey(1), OperationKey(2)} }

\* tables of n operations: the first j of them IN_PROGRESS, the last one
\* RELEASED, the others PLANNED
WideStores ==
    { [k \in {OperationKey(i) : i \in 1..n} |->
          StoredRow(IF k[2] <= j THEN "IN_PROGRESS"
                    ELSE IF k[2] = n THEN "RELEASED" ELSE "PLANNED", NoneQty)] :
        n \in 3..MaxBatchOps, j \in 0..MaxBatchOps }

\* tables of one operation in progress, with its quantities
QuantityStores ==
    { OperationKey(1) :>
          model_dump(("status" :> "IN_PROGRESS") @@ ("qty_desired" :> d)
                       @@ ("qty_processed" :> q)) :
        d \in Quantities, q \in Quantities }

StatusFilters ==
    { << >>, <<"PLANNED">>, <<"RELEASED">>, <<"PLANNED", "IN_PROGRESS">> }

\* the contexts the callers of transition_state pass
TransitionContexts ==
    UNION { CtxsOver(S) :
              S \in {T \in SUBSET {"setup_status", "quality_status", "user_role"} :
                       Cardinality(T) <= MaxCtxKeys}
                    \cup {T \in SUBSET ({"quality_status"} \cup QtyKeys) :
                            Cardinality(T) <= MaxCtxKeys} }

CallsEnhanced ==
    {Request("batch_update", NoCall.key, [filters |-> Filters(f), updates |-> p]) :
        f \in StatusFilters, p \in Payloads({"status", "qty_processed"})}
      \cup {Request("transition_state", OperationKey(1),
                    [new_status |-> t, context |-> c]) :
              t \in StatusStrings, c \in TransitionContexts}
      \cup {Request("Enhanced.create", OperationKey(1), d) :
              d \in CreateInputs({}) \cup CreateInputs({"status"})}
      \cup {Request("Enhanced.update", OperationKey(1), p) :
              p \in Payloads({"status", "qty_processed"})}
      \cup {Request("Enhanced.delete", OperationKey(1), EmptyData)}

BatchUpdate ==
    /\ pc = "called" /\ call.op = "batch_update"
    /\ Return(batch_update(store, call.data.filters, call.data.updates))

TransitionState ==
    /\ pc = "called" /\ call.op = "transition_state"
    /\ Return(transition_state(store, call.key, call.data.new_status,
                               call.data.context))

EnhancedCreate ==
    /\ pc = "called" /\ call.op = "Enhanced.create"
    /\ Return(Enhanced_create(store, call.key, call.data))

EnhancedUpdate ==
    /\ pc = "called" /\ call.op = "Enhanced.update"
    /\ Return(Enhanced_update(store, <<call.key[1], call.key[2], call.key[3],
                                       call.data>>))

EnhancedDelete ==
    /\ pc = "called" /\ call.op = "Enhanced.delete"
    /\ Return(Enhanced_delete(store, call.key))

InitEnhanced ==
    /\ store \in PairStores \cup WideStores \cup QuantityStores
    /\ Idle
    /\ sm = SmIdle
    /\ workers = NoWorkers

\* a call comes in
ReceiveEnhanced ==
    /\ pc = "idle"
    /\ \E c \in CallsEnhanced : Receive(c)

NextEnhanced ==
    \/ ReceiveEnhanced
    \/ BatchUpdate
    \/ TransitionState
    \/ EnhancedCreate
    \/ EnhancedUpdate
    \/ EnhancedDelete

SpecEnhanced == InitEnhanced /\ [][NextEnhanced]_vars

(***************************************************************************)
(* Properties of MESOperationServiceEnhanced (checked under SpecEnhanced)  *)
(***************************************************************************)
\* the operations that match the filter when the call comes in
Matching ==
    {k \in DOMAIN before :
        \/ call.data.filters.status = << >>
        \/ before[k].status \in Range(call.data.filters.status)}

\* the merged view of a matching operation
BatchMerged(k) ==
    [f \in RowFields |-> Get(call.data.updates, f, before[k][f])]

\* the status check of the batch refuses the operation
BatchRefused(k) ==
    /\ "status" \in DOMAIN call.data.updates
    /\ Enhanced_validate_state_transition(before[k].status,
                                          call.data.updates["status"])

\* the keys in the returned list of failures
ListedFailures ==
    IF "failed_operations" \in DOMAIN reply
    THEN {reply.failed_operations[i].operation_key :
            i \in 1..Len(reply.failed_operations)}
    ELSE {}

\* C22: batch_update changes only operations that match the filter; a
\* matching operation that the batch's validation refuses is left as it was
\* and recorded as failed, and every other matching operation is updated to
\* its merged view.
C22_BatchFrame ==
    Returned("batch_update")
    => /\ outcome = "returned"
       /\ DOMAIN store = DOMAIN before
       /\ \A k \in DOMAIN before \ Matching : store[k] = before[k]
       /\ \A k \in Matching :
            IF BatchRefused(k)
            THEN /\ store[k] = before[k]
                 /\ reply.failed_count >= 1
                 /\ reply.failed_count <= FailuresListed => k \in ListedFailures
            ELSE store[k] = BatchMerged(k)

\* one operation is refused, one is released, one does not match
C22_Witness ==
    /\ Returned("batch_update")
    /\ DOMAIN before = {OperationKey(1), OperationKey(2), OperationKey(3)}
    /\ call.data.filters.status = <<"PLANNED", "IN_PROGRESS">>
    /\ call.data.updates = ("status" :> "RELEASED")
    /\ before[OperationKey(1)].status = "IN_PROGRESS"
    /\ store[OperationKey(1)].status = "IN_PROGRESS"
    /\ before[OperationKey(2)].status = "PLANNED"
    /\ store[OperationKey(2)].status = "RELEASED"
    /\ before[OperationKey(3)].status = "RELEASED"
    /\ reply.count = 1 /\ reply.failed_count = 1

\* C23: a matching operation whose merged quantities have
\* qty_processed > qty_desired or qty_scrap > qty_processed (both present) is
\* not modified by batch_update and is reported as a failure.
C23_BatchQuantityRules ==
    Returned("batch_update")
    => \A k \in Matching :
         ~QuantitiesValid(BatchMerged(k).qty_desired, BatchMerged(k).qty_processed,
                          BatchMerged(k).qty_scrap)
         => (store[k] = before[k] /\ reply.failed_count >= 1)

\* C24: when the batch payload supplies a status t, a matching operation with
\* stored status s takes the status t exactly when update accepts the pair:
\* s equals t or (s, t) is one of the ten edges.
C24_BatchStatusAsUpdate ==
    (Returned("batch_update") /\ "status" \in DOMAIN call.data.updates)
    => \A k \in Matching :
         store[k].status = call.data.updates["status"]
           <=> ~_validate_state_transition(before[k].status,
                                           call.data.updates["status"])

\* C25: when at least one operation matches, count plus failed_count is the
\* number of matching operations (count the accepted ones, failed_count the
\* refused ones), and the returned list holds the first failures, at most 10.
C25_BatchCounts ==
    (Returned("batch_update") /\ Matching # {})
    => /\ reply.count + reply.failed_count = Cardinality(Matching)
       /\ reply.count = Cardinality({k \in Matching : ~BatchRefused(k)})
       /\ reply.failed_count = Cardinality({k \in Matching : BatchRefused(k)})
       /\ Len(reply.failed_operations) =
            (IF reply.failed_count < 10 THEN reply.failed_count ELSE 10)
       /\ Cardinality(ListedFailures) = Len(reply.failed_operations)
       /\ \A k \in ListedFailures : k \in Matching /\ BatchRefused(k)
       /\ \A k \in Matching :
            (BatchRefused(k) /\ k \notin ListedFailures)
            => \A l \in ListedFailures : l[2] < k[2]

\* more operations fail than the list holds, and one is updated
C25_Witness ==
    /\ Returned("batch_update") /\ Matching # {}
    /\ reply.failed_count = 10 + 1
    /\ Len(reply.failed_operations) = 10
    /\ reply.count >= 1

\* C30: transition_state on a stored operation, when the state machine
\* permits the transition from the stored status to a different new_status, stores
\* new_status (with actual_start_at set on entering IN_PROGRESS and
\* actual_end_at on entering FINISHED) and returns the operation and the
\* transition record.
C30_TransitionStateStores ==
    (Returned("transition_state") /\ call.key \in DOMAIN before
       /\ Existing.status # call.data.new_status
       /\ can_transition(Existing.status, call.data.new_status,
                         TransitionContext(Existing, call.data.context)))
    => /\ outcome = "returned"
       /\ store[call.key].status = call.data.new_status
       /\ call.data.new_status = "IN_PROGRESS"
            => store[call.key].actual_start_at # NoneTime
       /\ call.data.new_status = "FINISHED"
            => store[call.key].actual_end_at # NoneTime
       /\ "transition_result" \in DOMAIN reply

(***************************************************************************)
(* ManufacturingRules: values of an operation_data dict                    *)
(***************************************************************************)
\* largest number of keys in an operation_data dict
MaxRuleKeys == 2

PyNone == [type |-> "NoneType", n |-> 0, s |-> ""]
PyInt(n) == [type |-> "int", n |-> n, s |-> ""]
PyStr(x) == [type |-> "str", n |-> 0, s |-> x]
PyDatetime(t) == [type |-> "datetime", n |-> t, s |-> ""]

\* operation_data.get(key)
DictGet(operation_data, key) ==
    IF key \in DOMAIN operation_data THEN operation_data[key] ELSE PyNone

\* truthiness of a value
Bool(v) ==
    CASE v.type = "NoneType" -> FALSE
      [] v.type = "int" -> v.n # 0
      [] v.type = "str" -> v.s # ""
      [] OTHER -> TRUE

\* str.strip() of the strings of this model
Strip(x) == IF x = "  " THEN "" ELSE x

RuleKeys == {"qty_desired", "qty_processed", "qty_scrap", "status",
             "actual_start_at", "actual_end_at", "asset_id",
             "workplace_name", "order_no"}

\* the values callers put under a key: well-typed ones and ill-typed ones
RuleValues(k) ==
    CASE k \in {"qty_desired", "qty_processed", "qty_scrap"} ->
           {PyNone, PyStr("12")} \cup {PyInt(n) : n \in -2..MaxQty}
      [] k = "status" ->
           {PyStr("PLANNED"), PyStr("IN_PROGRESS"), PyStr("FINISHED")}
      [] k = "actual_start_at" ->
           {PyDatetime(1), PyDatetime(2), PyStr("2024-01-01T08:00:00")}
      [] k = "actual_end_at" -> {PyDatetime(1), PyDatetime(2)}
      [] k = "asset_id" -> {PyInt(1), PyInt(-1), PyStr("A1")}
      [] k = "workplace_name" -> {PyStr("Laser 1"), PyStr("  "), PyInt(7)}
      [] k = "order_no" -> {PyStr("WO-1"), PyStr("  "), PyInt(403860)}

RECURSIVE RuleDictsOver(_)
RuleDictsOver(S) ==
    IF S = {} THEN {EmptyData}
    ELSE LET k == CHOOSE x \in S : TRUE
         IN { (k :> v) @@ d : v \in RuleValues(k), d \in RuleDictsOver(S \ {k}) }

RuleDicts ==
    UNION { RuleDictsOver(S) :
              S \in {T \in SUBSET RuleKeys : Cardinality(T) <= MaxRuleKeys} }

\* what a rule function does: it returns its list of errors or raises
RuleReturns(errors) == [raised |-> FALSE, errors |-> errors]
RuleRaises == [raised |-> TRUE, errors |-> << >>]

When(cond, message) == IF cond THEN <<message>> ELSE << >>

(***************************************************************************)
(* ManufacturingRules: the five registered checks                          *)
(***************************************************************************)
validate_quantity_relationships_NoPositiveCheck(operation_data) ==
    LET qty_desired == DictGet(operation_data, "qty_desired")
        qty_processed == DictGet(operation_data, "qty_processed")
        qty_scrap == DictGet(operation_data, "qty_scrap")
        NotInt(v) == v.type \notin {"NoneType", "int"}
    IN IF NotInt(qty_desired) \/ NotInt(qty_processed) \/ NotInt(qty_scrap)
       THEN RuleRaises
       ELSE RuleReturns(
              When(qty_processed.type = "int" /\ qty_processed.n < 0,
                   "Processed quantity cannot be negative")
              \o When(qty_scrap.type = "int" /\ qty_scrap.n < 0,
                      "Scrap quantity cannot be negative")
              \o When(Bool(qty_desired) /\ Bool(qty_processed)
                        /\ qty_processed.n > qty_desired.n,
                      "Processed quantity (" \o ToString(qty_processed.n)
                        \o ") cannot exceed desired quantity ("
                        \o ToString(qty_desired.n) \o ")")
              \o When(Bool(qty_processed) /\ Bool(qty_scrap)
                        /\ qty_scrap.n > qty_processed.n,
                      "Scrap quantity (" \o ToString(qty_scrap.n)
                        \o ") cannot exceed processed quantity ("
                        \o ToString(qty_processed.n) \o ")"))

\* validate_quantity_relationships: comparing a str with 0 is a TypeError
validate_quantity_relationships(operation_data) ==
    LET qty_desired == DictGet(operation_data, "qty_desired")
        qty_processed == DictGet(operation_data, "qty_processed")
        qty_scrap == DictGet(operation_data, "qty_scrap")
        NotInt(v) == v.type \notin {"NoneType", "int"}
    IN IF NotInt(qty_desired) \/ NotInt(qty_processed) \/ NotInt(qty_scrap)
       THEN RuleRaises
       ELSE RuleReturns(
              When(qty_desired.type = "int" /\ qty_desired.n <= 0,
                   "Desired quantity must be positive")
              \o When(qty_processed.type = "int" /\ qty_processed.n < 0,
                      "Processed quantity cannot be negative")
              \o When(qty_scrap.type = "int" /\ qty_scrap.n < 0,
                      "Scrap quantity cannot be negative")
              \o When(Bool(qty_desired) /\ Bool(qty_processed)
                        /\ qty_processed.n > qty_desired.n,
                      "Processed quantity (" \o ToString(qty_processed.n)
                        \o ") cannot exceed desired quantity ("
                        \o ToString(qty_desired.n) \o ")")
              \o When(Bool(qty_processed) /\ Bool(qty_scrap)
                        /\ qty_scrap.n > qty_processed.n,
                      "Scrap quantity (" \o ToString(qty_scrap.n)
                        \o ") cannot exceed processed quantity ("
                        \o ToString(qty_processed.n) \o ")"))

\* validate_time_relationships (no planned times and no t_* durations in the
\* dicts of this model): comparing a str with a datetime is a TypeError
validate_time_relationships(operation_data) ==
    LET actual_start == DictGet(operation_data, "actual_start_at")
        actual_end == DictGet(operation_data, "actual_end_at")
    IN IF Bool(actual_start) /\ Bool(actual_end)
       THEN IF actual_start.type # actual_end.type THEN RuleRaises
            ELSE RuleReturns(When(actual_start.n >= actual_end.n,
                     "Actual start time must be before actual end time"))
       ELSE RuleReturns(<< >>)

\* validate_status_constraints
validate_status_constraints(operation_data) ==
    LET status == DictGet(operation_data, "status")
        qty_processed == DictGet(operation_data, "qty_processed")
        actual_start == DictGet(operation_data, "actual_start_at")
        actual_end == DictGet(operation_data, "actual_end_at")
    IN IF status = PyStr("IN_PROGRESS")
       THEN RuleReturns(When(~Bool(actual_start),
                "Operations in progress must have an actual start time"))
       ELSE IF status = PyStr("FINISHED")
       THEN RuleReturns(
              When(~Bool(actual_start),
                   "Finished operations must have an actual start time")
              \o When(~Bool(actual_end),
                      "Finished operations must have an actual end time")
              \o When(~Bool(qty_processed),
                      "Finished operations must have processed quantity > 0"))
       ELSE RuleReturns(<< >>)

\* validate_workplace_constraints: a str asset_id compared with 0 and
\* strip() of an int are errors
validate_workplace_constraints(operation_data) ==
    LET asset_id == DictGet(operation_data, "asset_id")
        workplace_name == DictGet(operation_data, "workplace_name")
    IN IF Bool(asset_id) /\ asset_id.type # "int" THEN RuleRaises
       ELSE IF Bool(workplace_name) /\ workplace_name.type # "str" THEN RuleRaises
       ELSE RuleReturns(
              When(Bool(asset_id) /\ asset_id.n <= 0, "Asset ID must be positive")
              \o When(Bool(workplace_name) /\ Strip(workplace_name.s) = "",
                      "Workplace name cannot be empty"))

\* validate_operation_sequence (no operation_no in the dicts of this model)
validate_operation_sequence(operation_data) ==
    LET order_no == DictGet(operation_data, "order_no")
    IN IF Bool(order_no) /\ order_no.type # "str" THEN RuleRaises
       ELSE RuleReturns(When(Bool(order_no) /\ Strip(order_no.s) = "",
                             "Order number cannot be empty"))

\* _initialize_validation_rules: the registry, in insertion order
_initialize_validation_rules ==
    <<"quantity_relationships", "time_relationships", "status_constraints",
      "workplace_constraints", "operation_sequence">>

\* rule_func(operation_data)
rule_func(rule_name, operation_data) ==
    CASE rule_name = "quantity_relationships" ->
           validate_quantity_relationships(operation_data)
      [] rule_name = "time_relationships" ->
           validate_time_relationships(operation_data)
      [] rule_name = "status_constraints" ->
           validate_status_constraints(operation_data)
      [] rule_name = "workplace_constraints" ->
           validate_workplace_constraints(operation_data)
      [] rule_name = "operation_sequence" ->
           validate_operation_sequence(operation_data)

RECURSIVE validate_operation_data(_, _, _)
validate_operation_data_AbortOnRaise(rules, operation_data, errors) ==
    IF rules = << >> THEN [raised |-> FALSE, errors |-> errors]
    ELSE LET rule_errors == rule_func(Head(rules), operation_data)
         IN IF rule_errors.raised
            THEN [raised |-> FALSE,
                  errors |-> Append(errors,
                      "Validation error in rule " \o Head(rules))]
            ELSE validate_operation_data(Tail(rules), operation_data,
                                         errors \o rule_errors.errors)

\* validate_operation_data: the loop over the registry from the rules left
\* to run and the errors collected so far
validate_operation_data(rules, operation_data, errors) ==
    IF rules = << >> THEN [raised |-> FALSE, errors |-> errors]
    ELSE LET rule_errors == rule_func(Head(rules), operation_data)
         IN validate_operation_data(Tail(rules), operation_data,
                IF rule_errors.raised
                THEN Append(errors, "Validation error in rule " \o Head(rules))
                ELSE errors \o rule_errors.errors)

(***************************************************************************)
(* ManufacturingRules.calculate_operation_metrics and                      *)
(* MESOperationService.calculate_efficiency                                *)
(***************************************************************************)
\* the columns of an operation that the metrics read; Decimal minutes are
\* whole numbers here, None is NoneQty
MetricFields == {"t_target_processing_min", "t_actual_processing_min",
                 "qty_processed", "qty_scrap", "qty_desired"}

MetricOperations == [MetricFields -> Quantities]

Pow10(d) == IF d = 2 THEN 100 ELSE IF d = 3 THEN 1000 ELSE 10000

\* round(num / den, digits) as a whole number of 10^-digits (den > 0):
\* round half to even
Round(num, den, digits) ==
    LET a == num * Pow10(digits)
        q == a \div den
        r == a % den
    IN IF 2 * r > den THEN q + 1
       ELSE IF 2 * r = den THEN q + (q % 2)
       ELSE q

\* what one block of the function does: it adds metrics, or a division raises
Metrics(m) == [raised |-> FALSE, metrics |-> m]
NoMetrics == [raised |-> FALSE, metrics |-> EmptyData]
ZeroDivisionError == [raised |-> TRUE, metrics |-> EmptyData]

MetricsReturn(blocks) ==
    IF \E i \in 1..Len(blocks) : blocks[i].raised
    THEN [store |-> EmptyStore, outcome |-> "zero_division", reply |-> NoReply]
    ELSE [store |-> EmptyStore, outcome |-> "returned",
          reply |-> blocks[1].metrics @@ blocks[2].metrics
                      @@ blocks[3].metrics @@ blocks[4].metrics]

calculate_operation_metrics_UnguardedThroughput(operation) ==
    LET t_target == operation.t_target_processing_min
        t_actual == operation.t_actual_processing_min
        qty_processed == operation.qty_processed
        qty_scrap == operation.qty_scrap
        qty_desired == operation.qty_desired
        efficiency ==
            IF Truthy(t_target) /\ Truthy(t_actual) /\ t_actual > 0
            THEN Metrics("processing_efficiency" :> Round(t_target, t_actual, 3))
            ELSE NoMetrics
        throughput ==
            IF Truthy(qty_processed) /\ t_actual # NoneQty
            THEN IF t_actual = 0 THEN ZeroDivisionError
                 ELSE Metrics("throughput_per_hour" :>
                                 Round(60 * qty_processed, t_actual, 2))
            ELSE NoMetrics
        quality ==
            IF Truthy(qty_processed) /\ Truthy(qty_scrap) /\ qty_processed > 0
            THEN Metrics(("scrap_rate" :> Round(qty_scrap, qty_processed, 4))
                   @@ ("quality_rate" :>
                          Round(qty_processed - qty_scrap, qty_processed, 4)))
            ELSE NoMetrics
        completion ==
            IF Truthy(qty_desired) /\ Truthy(qty_processed)
            THEN IF qty_desired = 0 THEN ZeroDivisionError
                 ELSE Metrics("completion_percentage" :>
                        IF qty_processed >= qty_desired THEN Pow10(3)
                        ELSE Round(qty_processed, qty_desired, 3))
            ELSE NoMetrics
    IN MetricsReturn(<<efficiency, throughput, quality, completion>>)

\* calculate_operation_metrics (the operation has no planned times, so the
\* two schedule variances are not computed): every division sits behind the
\* truthiness of its operands
calculate_operation_metrics(operation) ==
    LET t_target == operation.t_target_processing_min
        t_actual == operation.t_actual_processing_min
        qty_processed == operation.qty_processed
        qty_scrap == operation.qty_scrap
        qty_desired == operation.qty_desired
        efficiency ==
            IF Truthy(t_target) /\ Truthy(t_actual) /\ t_actual > 0
            THEN Metrics("processing_efficiency" :> Round(t_target, t_actual, 3))
            ELSE NoMetrics
        throughput ==
            IF Truthy(qty_processed) /\ Truthy(t_actual) /\ t_actual > 0
            THEN Metrics("throughput_per_hour" :>
                            Round(60 * qty_processed, t_actual, 2))
            ELSE NoMetrics
        quality ==
            IF Truthy(qty_processed) /\ Truthy(qty_scrap) /\ qty_processed > 0
            THEN Metrics(("scrap_rate" :> Round(qty_scrap, qty_processed, 4))
                   @@ ("quality_rate" :>
                          Round(qty_processed - qty_scrap, qty_processed, 4)))
            ELSE NoMetrics
        completion ==
            IF Truthy(qty_desired) /\ Truthy(qty_processed)
            THEN IF qty_desired = 0 THEN ZeroDivisionError
                 ELSE Metrics("completion_percentage" :>
                        IF qty_processed >= qty_desired THEN Pow10(3)
                        ELSE Round(qty_processed, qty_desired, 3))
            ELSE NoMetrics
    IN MetricsReturn(<<efficiency, throughput, quality, completion>>)

\* MESOperationService.calculate_efficiency: None, or the ratio
\* target / actual capped at 2.0, as <<numerator, denominator>>
calculate_efficiency(operation) ==
    LET t_target == operation.t_target_processing_min
        t_actual == operation.t_actual_processing_min
        NoneReturned == [store |-> EmptyStore, outcome |-> "returned",
                         reply |-> [none |-> TRUE, value |-> <<0, 1>>]]
    IN IF ~Truthy(t_actual) \/ ~Truthy(t_target) THEN NoneReturned
       ELSE IF t_target = 0 THEN NoneReturned
       ELSE IF t_actual = 0
            THEN [store |-> EmptyStore, outcome |-> "zero_division",
                  reply |-> NoReply]
       ELSE [store |-> EmptyStore, outcome |-> "returned",
             reply |-> [none |-> FALSE,
                        value |-> IF t_target >= 2 * t_actual THEN <<2, 1>>
                                  ELSE <<t_target, t_actual>>]]

(***************************************************************************)
(* SpecRules: one call of the rule engine or of calculate_efficiency       *)
(***************************************************************************)
CallsRules ==
    {Request("validate_operation_data", NoCall.key, d) : d \in RuleDicts}
      \cup {Request("calculate_operation_metrics", NoCall.key, o) :
              o \in MetricOperations}
      \cup {Request("calculate_efficiency", NoCall.key, o) :
              o \in MetricOperations}

ValidateOperationData ==
    /\ pc = "called" /\ call.op = "validate_operation_data"
    /\ LET r == validate_operation_data(_initialize_validation_rules,
                                        call.data, << >>)
       IN Return([store |-> store,
                  outcome |-> IF r.raised THEN "raised" ELSE "returned",
                  reply |-> r.errors])

CalculateOperationMetrics ==
    /\ pc = "called" /\ call.op = "calculate_operation_metrics"
    /\ Return(calculate_operation_metrics(call.data))

CalculateEfficiency ==
    /\ pc = "called" /\ call.op = "calculate_efficiency"
    /\ Return(calculate_efficiency(call.data))

\* a call comes in
ReceiveRules ==
    /\ pc = "idle"
    /\ \E c \in CallsRules : Receive(c)

NextRules ==
    \/ ReceiveRules
    \/ ValidateOperationData
    \/ CalculateOperationMetrics
    \/ CalculateEfficiency

SpecRules == Init /\ [][NextRules]_vars

(***************************************************************************)
(* Properties of the rule engine (checked under SpecRules)                 *)
(***************************************************************************)
\* what the check registered under a name contributes to the result
RuleContribution(rule_name) ==
    IF rule_func(rule_name, call.data).raised
    THEN <<"Validation error in rule " \o rule_name>>
    ELSE rule_func(rule_name, call.data).errors

\* C26: validate_operation_data never raises; a check that raises adds
\* exactly one generic 'Validation error in rule <name>' entry, the remaining
\* checks still run, and the errors of the other checks are in the returned
\* list in registry order.
C26_RuleEngineCollects ==
    Returned("validate_operation_data")
    => /\ outcome = "returned"
       /\ reply = RuleContribution("quantity_relationships")
                    \o RuleContribution("time_relationships")
                    \o RuleContribution("status_constraints")
                    \o RuleContribution("workplace_constraints")
                    \o RuleContribution("operation_sequence")

\* the first check raises, the third still reports
C26_Witness ==
    /\ Returned("validate_operation_data")
    /\ call.data = ("qty_desired" :> PyStr("12"))
                     @@ ("status" :> PyStr("IN_PROGRESS"))
    /\ reply = <<"Validation error in rule quantity_relationships",
                 "Operations in progress must have an actual start time">>

\* C27: when qty_processed and qty_desired are both integers (any sign, zero
\* included) with qty_processed > qty_desired, validate_operation_data
\* returns a non-empty list.
C27_ProcessedOverDesiredReported ==
    (Returned("validate_operation_data")
       /\ DictGet(call.data, "qty_processed").type = "int"
       /\ DictGet(call.data, "qty_desired").type = "int"
       /\ DictGet(call.data, "qty_processed").n > DictGet(call.data, "qty_desired").n)
    => (outcome = "returned" /\ reply # << >>)

\* qty_desired is 0: the ordering check is skipped, the positivity check reports
C27_Witness ==
    /\ Returned("validate_operation_data")
    /\ call.data = ("qty_desired" :> PyInt(0)) @@ ("qty_processed" :> PyInt(1))
    /\ reply = <<"Desired quantity must be positive">>

\* C28: when qty_scrap and qty_processed are both integers (zero included)
\* with qty_scrap > qty_processed, validate_operation_data returns a
\* non-empty list.
C28_ScrapOverProcessedReported ==
    (Returned("validate_operation_data")
       /\ DictGet(call.data, "qty_scrap").type = "int"
       /\ DictGet(call.data, "qty_processed").type = "int"
       /\ DictGet(call.data, "qty_scrap").n > DictGet(call.data, "qty_processed").n)
    => (outcome = "returned" /\ reply # << >>)

\* C29: calculate_operation_metrics never divides by zero and returns a map;
\* processing_efficiency and throughput_per_hour are in it only when
\* t_actual_processing_min is present and > 0, scrap_rate and quality_rate
\* only when qty_processed > 0, completion_percentage only when
\* qty_desired > 0; calculate_efficiency returns None, without dividing, when
\* t_actual_processing_min is 0 or absent.
C29_NoDivisionByZero ==
    /\ Returned("calculate_operation_metrics")
       => /\ outcome = "returned"
          /\ \A m \in {"processing_efficiency", "throughput_per_hour"} :
               m \in DOMAIN reply =>
                 (call.data.t_actual_processing_min # NoneQty
                    /\ call.data.t_actual_processing_min > 0)
          /\ \A m \in {"scrap_rate", "quality_rate"} :
               m \in DOMAIN reply =>
                 (call.data.qty_processed # NoneQty /\ call.data.qty_processed > 0)
          /\ "completion_percentage" \in DOMAIN reply =>
               (call.data.qty_desired # NoneQty /\ call.data.qty_desired > 0)
    /\ Returned("calculate_efficiency")
       => /\ outcome = "returned"
          /\ call.data.t_actual_processing_min \in {NoneQty, 0} => reply.none

\* the actual time is 0: the two time metrics are left out, the completion
\* is computed
C29_Witness ==
    /\ Returned("calculate_operation_metrics")
    /\ call.data.t_actual_processing_min = 0
    /\ call.data.t_target_processing_min = 1
    /\ call.data.qty_processed = 1 /\ call.data.qty_desired = 2
    /\ call.data.qty_scrap = NoneQty
    /\ outcome = "returned"
    /\ reply = ("completion_percentage" :> 500)

(***************************************************************************)
(* routers/mes_operations.py: the operations endpoints that main.py        *)
(* registers under /api/v1/operations                                      *)
(***************************************************************************)
\* POST /: DuplicateOperationException for a stored key, else the storage
\* function (InvalidQuantityException -> 422, IntegrityError -> 400)
router_create_operation(st, k, operation) ==
    IF Present(st, k) THEN Result(st, "duplicate_operation")
    ELSE create_operation(st, k, operation)

\* PATCH /{key}: 404 for a missing key, FINISHED -> IN_PROGRESS refused,
\* else the storage function
router_update_operation(st, k, update_data) ==
    IF ~Present(st, k) THEN Result(st, "not_found")
    ELSE IF "status" \in DOMAIN update_data
              /\ st[k].status = "FINISHED" /\ update_data["status"] = "IN_PROGRESS"
         THEN Result(st, "invalid_state_transition")
         ELSE update_operation(st, k, update_data)

\* DELETE /{key}: the storage function, 404 when it returns False
router_delete_operation(st, k) ==
    LET deleted == delete_operation(st, k)
    IN IF deleted.outcome = "returned_false" THEN Result(st, "not_found")
       ELSE deleted

\* the requests of clients of the registered endpoints: one operation key,
\* status and qty_processed supplied
CallsRouter ==
    LET K == {<<"WO-1", 1, "0010">>}
        F == {"status", "qty_processed"}
    IN {Request("POST", k, d) : k \in K, d \in CreateInputs(F)}
         \cup {Request("PATCH", k, p) : k \in K, p \in Payloads(F)}
         \cup {Request("DELETE", k, EmptyData) : k \in K}

RouterCreate ==
    /\ pc = "called" /\ call.op = "POST"
    /\ Return(router_create_operation(store, call.key, call.data))

RouterUpdate ==
    /\ pc = "called" /\ call.op = "PATCH"
    /\ Return(router_update_operation(store, call.key, call.data))

RouterDelete ==
    /\ pc = "called" /\ call.op = "DELETE"
    /\ Return(router_delete_operation(store, call.key))

ReceiveRouter ==
    /\ pc = "idle"
    /\ \E c \in CallsRouter : Receive(c)

NextRouter ==
    \/ ReceiveRouter
    \/ RouterCreate
    \/ RouterUpdate
    \/ RouterDelete
    \/ Respond

SpecRouter == Init /\ [][NextRouter]_vars

\* C31: through the registered operations endpoints a DELETE on a stored
\* FINISHED operation is refused and the operation remains stored.
C31_RouterKeepsFinished ==
    (Returned("DELETE") /\ Present(before, call.key)
       /\ Existing.status = "FINISHED")
    => (outcome # "returned" /\ store = before)

(***************************************************************************)
(* can_transition against transition (checked under SpecSM)                *)
(***************************************************************************)
\* C32: whenever can_transition(s, t, ctx) returns true, transition(s, t,
\* ctx, actor) returns a transition record instead of raising, for every
\* pair of statuses, s equal to t included.
C32_CanTransitionImpliesTransition ==
    (sm.call = "transition"
       /\ can_transition(sm.from_state, sm.to_state, sm.context))
    => sm.record.error = "none"

(***************************************************************************)
(* transition_state and the effects of its transition (checked under       *)
(* SpecEnhanced)                                                           *)
(***************************************************************************)
\* C33: in transition_state the effects of a transition are executed only
\* for a status change that ends up persisted: when the call fails, or the
\* new status is not the stored one afterwards, no effect of the transition
\* has been executed.
C33_EffectsOnlyWhenPersisted ==
    (Returned("transition_state") /\ Present(before, call.key)
       /\ (outcome # "returned" \/ store[call.key].status # call.data.new_status))
    => sm.record.effects_executed = << >>

(***************************************************************************)
(* The enhanced service against MESOperationService (checked under         *)
(* SpecEnhanced)                                                           *)
(***************************************************************************)
\* the outcomes that are a raised exception
IsError(how) == how \notin {"returned", "returned_none", "returned_false"}

\* the current call ended as the basic service's call basic did: the same
\* error, or the same stored result
AsBasic(basic) ==
    IF IsError(basic.outcome)
    THEN outcome = basic.outcome /\ store = before
    ELSE ~IsError(outcome) /\ store = basic.store

\* C34: for every table and input, create, update and delete of the enhanced
\* service produce the same error or the same stored result as create,
\* update and delete of MESOperationService, with create additionally
\* rejecting an initial status outside {PLANNED, RELEASED}.
C34_EnhancedRefinesBasic ==
    /\ Returned("Enhanced.create")
       => IF call.data.status \notin {"PLANNED", "RELEASED"}
          THEN outcome = "invalid_state_transition" /\ store = before
          ELSE AsBasic(create(before, call.key, call.data))
    /\ Returned("Enhanced.update")
       => AsBasic(update(before, call.key, call.data))
    /\ Returned("Enhanced.delete")
       => AsBasic(delete(before, call.key))

(***************************************************************************)
(* SpecConcurrent: two requests on one operation key, each with its own    *)
(* MESOperationService and Session, their steps interleaved                *)
(***************************************************************************)
Workers == {1, 2}

ConcurrentKey == <<"WO-1", 1, "0010">>

IdleWorker == [pc |-> "idle", call |-> NoCall, existing |-> EmptyStore,
               outcome |-> "none"]

\* the tables the two requests start on: empty, or the operation stored
\* with some status
ConcurrentStores ==
    {EmptyStore}
      \cup {ConcurrentKey :> model_dump(("status" :> s)) : s \in OperationStatus}

\* the calls of worker w: a create that carries the worker's own qty_desired,
\* an update of the status, a delete
CallsConcurrent(w) ==
    {Request("create", ConcurrentKey,
             model_dump(("status" :> "IN_PROGRESS") @@ ("qty_desired" :> w)))}
      \cup {Request("update", ConcurrentKey, p) : p \in Payloads({"status"})}
      \cup {Request("delete", ConcurrentKey, EmptyData)}

\* existing = self.get_by_id(operation_key): the row as the table holds it now
service_fetch(st, k) == [x \in DOMAIN st \cap {k} |-> st[x]]

\* the checks of create, update and delete on the fetched row: the outcome
\* that ends the call before its transaction, or "ok"
service_validate(c, existing) ==
    CASE c.op = "create" ->
           IF Present(existing, c.key) THEN "duplicate_operation"
           ELSE IF _validate_operation_data(c.data) THEN "invalid_quantity"
           ELSE "ok"
      [] c.op = "update" ->
           IF ~Present(existing, c.key) THEN "not_found"
           ELSE IF "status" \in DOMAIN c.data
                     /\ _validate_state_transition(existing[c.key].status,
                                                   c.data["status"])
                THEN "invalid_state_transition"
           ELSE IF _validate_quantities_update(existing[c.key], c.data)
                THEN "invalid_quantity"
           ELSE "ok"
      [] c.op = "delete" ->
           IF ~Present(existing, c.key) THEN "returned_false"
           ELSE IF existing[c.key].status = "FINISHED"
                THEN "invalid_state_transition"
           ELSE "ok"

\* update_operation in the Session that fetched `existing`: its query finds
\* the row as the table holds it now (None when it is gone) but returns the
\* object the Session already holds, with the attributes as fetched; the
\* quantity check reads those, and the commit writes the supplied fields
\* whose value differs from the fetched one
session_update_operation(st, existing, k, update_data) ==
    IF ~Present(st, k) THEN Result(st, "returned_none")
    ELSE LET db_operation == existing[k]
             new_qty_processed ==
                 Get(update_data, "qty_processed", db_operation.qty_processed)
             qty_desired == Get(update_data, "qty_desired", db_operation.qty_desired)
         IN IF Truthy(new_qty_processed) /\ Truthy(qty_desired)
                 /\ new_qty_processed > qty_desired
            THEN Result(st, "invalid_quantity")
            ELSE Result([st EXCEPT ![k] =
                            [f \in RowFields |->
                               IF f \in DOMAIN update_data
                                    /\ update_data[f] # db_operation[f]
                               THEN update_data[f] ELSE st[k][f]]],
                        "returned")

\* with self.transaction(): the storage function of the call, on the table
\* as it is now
service_write(st, c, existing) ==
    CASE c.op = "create" -> create_operation(st, c.key, c.data)
      [] c.op = "update" -> session_update_operation(st, existing, c.key, c.data)
      [] c.op = "delete" -> delete_operation(st, c.key)

Served == UNCHANGED <<pc, call, before, outcome, reply, sm>>

\* a request reaches worker w
Begin(w) ==
    /\ workers[w].pc = "idle"
    /\ \E c \in CallsConcurrent(w) :
         workers' = [workers EXCEPT ![w] = [IdleWorker EXCEPT !.pc = "fetch",
                                                              !.call = c]]
    /\ UNCHANGED store
    /\ Served

Fetch(w) ==
    /\ workers[w].pc = "fetch"
    /\ workers' = [workers EXCEPT
                     ![w].existing = service_fetch(store, workers[w].call.key),
                     ![w].pc = "validate"]
    /\ UNCHANGED store
    /\ Served

Validate(w) ==
    /\ workers[w].pc = "validate"
    /\ LET how == service_validate(workers[w].call, workers[w].existing)
       IN workers' = [workers EXCEPT
                        ![w].pc = IF how = "ok" THEN "write" ELSE "done",
                        ![w].outcome = IF how = "ok" THEN "none" ELSE how]
    /\ UNCHANGED store
    /\ Served

Write(w) ==
    /\ workers[w].pc = "write"
    /\ LET r == service_write(store, workers[w].call, workers[w].existing)
       IN /\ store' = r.store
          /\ workers' = [workers EXCEPT ![w].pc = "done",
                                        ![w].outcome = r.outcome]
    /\ Served

InitConcurrent ==
    /\ store \in ConcurrentStores
    /\ Idle
    /\ sm = SmIdle
    /\ workers = [w \in Workers |-> IdleWorker]

NextConcurrent ==
    \E w \in Workers :
       \/ Begin(w)
       \/ Fetch(w)
       \/ Validate(w)
       \/ Write(w)

SpecConcurrent == InitConcurrent /\ [][NextConcurrent]_vars

\* C35: with the fetch, validate and write steps of two calls on one key
\* interleaved, an operation whose stored status has become FINISHED or
\* CANCELLED never has its status changed afterwards.
C35_TerminalFinalUnderInterleaving ==
    [][(Present(store, ConcurrentKey) /\ Present(store', ConcurrentKey)
          /\ store[ConcurrentKey].status \in TerminalStates)
       => store'[ConcurrentKey].status = store[ConcurrentKey].status]_vars

\* the two calls are creates of a key that was new when one of them fetched
ConcurrentCreates ==
    /\ \A w \in Workers : workers[w].pc = "done" /\ workers[w].call.op = "create"
    /\ \E w \in Workers : ~Present(workers[w].existing, ConcurrentKey)

\* C36: of two concurrent creates of the same new key exactly one stores the
\* operation; the other fails with the duplicate-operation or the
\* integrity-violation error, and the table holds the winner's data.
C36_ConcurrentCreate ==
    ConcurrentCreates
    => \E w \in Workers :
         /\ workers[w].outcome = "returned"
         /\ \A v \in Workers \ {w} :
              workers[v].outcome \in {"duplicate_operation", "integrity_violation"}
         /\ Present(store, ConcurrentKey)
         /\ store[ConcurrentKey] = workers[w].call.data

\* both creates fetched nothing; the second INSERT hit the primary key
C36_Witness ==
    /\ ConcurrentCreates
    /\ \A w \in Workers : ~Present(workers[w].existing, ConcurrentKey)
    /\ workers[2].outcome = "returned"
    /\ workers[1].outcome = "integrity_violation"
    /\ store[ConcurrentKey].qty_desired = 2

(***************************************************************************)
(* start_operation and the recorded start time (checked under Spec)        *)
(***************************************************************************)
\* C37: once actual_start_at has been set for an operation, start_operation
\* never changes it: resuming from ON_HOLD keeps the actual_start_at
\* recorded at the first start.
C37_StartKeepsActualStart ==
    (Returned("start_operation") /\ Present(before, call.key)
       /\ Existing.actual_start_at # NoneTime)
    => (Present(store, call.key)
          /\ store[call.key].actual_start_at = Existing.actual_start_at)

(***************************************************************************)
(* transition_state and the quantities in the caller's context (checked    *)
(* under SpecEnhanced)                                                     *)
(***************************************************************************)
\* the caller's context without the quantity keys
WithoutQuantities(context) ==
    [k \in DOMAIN context \ QtyKeys |-> context[k]]

\* a stored quantity, an absent one replaced by default
StoredOr(q, default) == IF q = NoneQty THEN default ELSE q

\* C38: in transition_state the quantity_complete precondition is evaluated
\* on the stored quantities (absent qty_processed as 0, absent qty_desired
\* as 1): the qty_processed and qty_desired the caller puts in the context
\* never influence the outcome, and a transition to FINISHED is refused
\* whenever the stored qty_processed is below the stored qty_desired.
C38_StoredQuantitiesDecide ==
    (Returned("transition_state") /\ Present(before, call.key))
    => /\ outcome = transition_state(before, call.key, call.data.new_status,
                                     WithoutQuantities(call.data.context)).outcome
       /\ store = before
       /\ (call.data.new_status = "FINISHED"
             /\ StoredOr(Existing.qty_processed, 0)
                  < StoredOr(Existing.qty_desired, 1))
          => outcome = "value_error"

\* the caller reports the quantity as complete with an approved quality, the
\* stored quantity is not: refused
C38_Witness ==
    /\ Returned("transition_state") /\ Present(before, call.key)
    /\ Existing.status = "IN_PROGRESS"
    /\ Existing.qty_processed = 1 /\ Existing.qty_desired = 2
    /\ call.data.new_status = "FINISHED"
    /\ call.data.context = ("quality_status" :> "APPROVED") @@ ("qty_processed" :> 2)
    /\ outcome = "value_error"
    /\ sm.record.error = "Invalid transition"

====
